---- MODULE Spec2Model ----
(***************************************************************************)
(* The coordination store of pkg/agent: agent registrations, work claims   *)
(* (leases), file hints, the cleanup sweep and the agents.jsonl snapshot.  *)
(*                                                                         *)
(* Time is counted in units of 30 minutes; the zero time.Time is 0 and the *)
(* clock starts at 1.  A Go slice is a sequence plus a flag telling a nil  *)
(* slice from an empty one.                                                *)
(***************************************************************************)
EXTENDS Integers, Sequences, FiniteSets, TLC

VARIABLES
    now,      \* the wall clock read by time.Now()
    agents,   \* Store.agents: name -> AgentRegistration
    dir,      \* the beads directory: path -> inode number, 0 when absent
    inodes,   \* inode number -> the lines written to it
    last,     \* the last store call and what it returned
    pc,       \* concurrent Claim callers: position of each caller
    mu,       \* Store.mu: the caller holding the exclusive lock, or NoOne
    savers,   \* the Save calls in progress: open file, offset, records left
    got       \* a record returned by a getter and what it still shares

vars == <<now, agents, dir, inodes, last, pc, mu, savers, got>>

----------------------------------------------------------------------------
\* Bounds of the model

MaxTime == 3
MaxHints == 1
MaxInodes == 4
MaxLines == 3
MaxAgentHints == 2
MaxSweepTime == 4

\* Program constants, in units of 30 minutes
DefaultClaimExpiry == 1
DefaultInactivityThreshold == 1
DefaultStaleThreshold == 2
DefaultFileHintExpiry == 1
\* bufio.MaxScanTokenSize, the default buffer limit of bufio.NewScanner
MaxScanTokenSize == 65536

ZeroTime == 0

Names == {"a1", "a2"}
Beads == {"b1", "b2"}
OneBead == {"b1"}
LongPattern == "long"             \* stands for a pattern of 70000 bytes
Patterns == {"main.go", LongPattern}

AgentStatusActive == "active"
AgentStatusIdle == "idle"
AgentStatusInactive == "inactive"
AgentStatusGone == "gone"

ClaimReasonImplementing == "implementing"
ClaimReasonReviewing == "reviewing"
ClaimReasonTesting == "testing"
ClaimReasonDebugging == "debugging"
ClaimReasonPlanning == "planning"

NoOne == "none"

----------------------------------------------------------------------------
\* Domain model

StatusIsValid(s) ==
    s \in {AgentStatusActive, AgentStatusIdle, AgentStatusInactive, AgentStatusGone}

ReasonIsValid(r) ==
    r \in {ClaimReasonImplementing, ClaimReasonReviewing, ClaimReasonTesting,
           ClaimReasonDebugging, ClaimReasonPlanning}

\* a validation that accepts any status
ValidateAnyStatus(a) ==
    IF a.Name = "" THEN "validation"
    ELSE IF a.Program = "" THEN "validation"
    ELSE "ok"

\* AgentRegistration.Validate: "ok" or the error
Validate(a) ==
    IF a.Name = "" THEN "validation"
    ELSE IF a.Program = "" THEN "validation"
    ELSE IF ~StatusIsValid(a.Status) THEN "validation"
    ELSE "ok"

\* WorkClaim.Validate
ClaimValidate(c) ==
    IF c.BeadID = "" THEN "validation"
    ELSE IF c.Agent = "" THEN "validation"
    ELSE IF c.ClaimedAt = ZeroTime THEN "validation"
    ELSE IF c.ExpiresAt = ZeroTime THEN "validation"
    ELSE IF ~ReasonIsValid(c.Reason) THEN "validation"
    ELSE "ok"

\* a lease that ends at its expiry instant instead of after it
IsExpiredAtExpiry(c, t) == t >= c.ExpiresAt

\* WorkClaim.IsExpired / FileHint.IsExpired: now.After(ExpiresAt)
IsExpired(c, t) == t > c.ExpiresAt

\* an agent that still counts as active at the timeout itself
IsActiveAtTimeout(a, timeout) == now - a.LastSeen <= timeout

\* AgentRegistration.IsActive: time.Since(LastSeen) < timeout
IsActive(a, timeout) == now - a.LastSeen < timeout

\* AgentRegistration.IsStale: time.Since(LastSeen) > threshold
IsStale(a, threshold) == now - a.LastSeen > threshold

\* AgentRegistration.ActiveClaims
ActiveClaims(a, t) == SelectSeq(a.ClaimedWork, LAMBDA c : ~IsExpired(c, t))

NewAgentRegistration(name, model, program) ==
    [Name |-> name, Model |-> model, Program |-> program,
     StartedAt |-> now, LastSeen |-> now,
     ClaimedWork |-> <<>>, NilClaims |-> FALSE,
     FileHints |-> <<>>, NilHints |-> FALSE,
     Status |-> AgentStatusActive]

NewWorkClaim(beadID, agent, reason) ==
    [BeadID |-> beadID, Agent |-> agent, ClaimedAt |-> now,
     ExpiresAt |-> now + DefaultClaimExpiry, Reason |-> reason]

NewFileHint(pattern, agent, beadID) ==
    [Pattern |-> pattern, Agent |-> agent, BeadID |-> beadID,
     CreatedAt |-> now, ExpiresAt |-> now + DefaultFileHintExpiry]

----------------------------------------------------------------------------
\* The registry map

Put(m, k, v) == [x \in DOMAIN m \cup {k} |-> IF x = k THEN v ELSE m[x]]
Del(m, k) == [x \in DOMAIN m \ {k} |-> m[x]]
EmptyMap == [x \in {} |-> 0]

\* what a call returned: the call, its arguments, the error and, for a
\* conflict, the holder the error names
Ret(op, name, bead, err, holder, arg) ==
    [op |-> op, name |-> name, bead |-> bead, err |-> err, holder |-> holder,
     arg |-> arg]
NoArg == <<>>

Range(s) == {s[i] : i \in DOMAIN s}

\* Store.mu.  A Save in progress holds it shared; a mutation waits for the
\* readers and the writer to leave.
Readers == {s \in DOMAIN savers : savers[s].at \in {"create", "encode", "close", "rename"}}
Alive == \A s \in DOMAIN savers : savers[s].at # "crashed"
\* a lock that does not keep a second writer out
CanLockShared == Alive
\* a writer's lock that does not wait for the readers to leave
CanLockPastReaders == Alive /\ mu = NoOne

CanLock == Alive /\ mu = NoOne /\ Readers = {}
CanRLock == Alive /\ mu = NoOne

\* A record handed out by a getter is a copy of the struct: its ClaimedWork
\* and FileHints slices still point into the store's arrays until the store
\* replaces its own slice.
NoGot == [live |-> FALSE, from |-> "", rec |-> <<>>,
          sharesClaims |-> FALSE, sharesHints |-> FALSE]

\* the store gave agent name a new claims array (keepClaims false) or a new
\* hints array (keepHints false)
Detach(name, keepClaims, keepHints) ==
    IF got.live /\ got.from = name
    THEN [got EXCEPT !.sharesClaims = @ /\ keepClaims,
                     !.sharesHints = @ /\ keepHints]
    ELSE got

----------------------------------------------------------------------------
\* Store operations.  Each holds Store.mu exclusively from its first read of
\* the map to its return, so each is one step.  AddFileHint appends to a list
\* that earlier appends filled to its capacity, so it moves to a new array.

\* a Register that lets the incoming record's start time stand
MergedNewStart(reg) ==
    IF reg.Name \in DOMAIN agents
    THEN LET existing == agents[reg.Name]
         IN [reg EXCEPT
               !.ClaimedWork = IF reg.NilClaims THEN existing.ClaimedWork ELSE @,
               !.NilClaims = IF reg.NilClaims THEN existing.NilClaims ELSE @,
               !.FileHints = IF reg.NilHints THEN existing.FileHints ELSE @,
               !.NilHints = IF reg.NilHints THEN existing.NilHints ELSE @,
               !.LastSeen = now]
    ELSE [reg EXCEPT !.LastSeen = now]

\* a Register that lets the incoming record's last-seen stand
MergedKeepsLastSeen(reg) ==
    IF reg.Name \in DOMAIN agents
    THEN LET existing == agents[reg.Name]
         IN [reg EXCEPT
               !.StartedAt = existing.StartedAt,
               !.ClaimedWork = IF reg.NilClaims THEN existing.ClaimedWork ELSE @,
               !.NilClaims = IF reg.NilClaims THEN existing.NilClaims ELSE @,
               !.FileHints = IF reg.NilHints THEN existing.FileHints ELSE @,
               !.NilHints = IF reg.NilHints THEN existing.NilHints ELSE @]
    ELSE reg

\* Register: the record stored for reg
Merged(reg) ==
    IF reg.Name \in DOMAIN agents
    THEN LET existing == agents[reg.Name]
             keepClaims == reg.NilClaims
             keepHints == reg.NilHints
         IN [reg EXCEPT
               !.StartedAt = existing.StartedAt,
               !.ClaimedWork = IF keepClaims THEN existing.ClaimedWork ELSE @,
               !.NilClaims = IF keepClaims THEN existing.NilClaims ELSE @,
               !.FileHints = IF keepHints THEN existing.FileHints ELSE @,
               !.NilHints = IF keepHints THEN existing.NilHints ELSE @,
               !.LastSeen = now]
    ELSE [reg EXCEPT !.LastSeen = now]

Register(reg) ==
    /\ Validate(reg) = "ok" => CanLock
    /\ IF Validate(reg) # "ok"
       THEN /\ agents' = agents
            /\ last' = Ret("Register", reg.Name, "", "validation", "", reg)
       ELSE /\ agents' = Put(agents, reg.Name, Merged(reg))
            /\ last' = Ret("Register", reg.Name, "", "ok", "", reg)
    /\ got' = IF Validate(reg) # "ok" THEN got
            ELSE Detach(reg.Name, reg.NilClaims /\ reg.Name \in DOMAIN agents,
                                  reg.NilHints /\ reg.Name \in DOMAIN agents)
    /\ UNCHANGED <<now, dir, inodes, pc, mu, savers>>

\* an Unregister that keeps the record and marks it Gone
UnregisterMarksGone(name) ==
    /\ CanLock
    /\ IF name \notin DOMAIN agents
       THEN /\ agents' = agents
            /\ last' = Ret("Unregister", name, "", "notfound", "", 0)
       ELSE /\ agents' = [agents EXCEPT ![name].Status = AgentStatusGone]
            /\ last' = Ret("Unregister", name, "", "ok", "",
                           Len(ActiveClaims(agents[name], now)))
    /\ got' = Detach(name, FALSE, FALSE)
    /\ UNCHANGED <<now, dir, inodes, pc, mu, savers>>

\* Unregister; the result records how many unexpired claims the agent held
Unregister(name) ==
    /\ CanLock
    /\ IF name \notin DOMAIN agents
       THEN /\ agents' = agents
            /\ last' = Ret("Unregister", name, "", "notfound", "", 0)
       ELSE /\ agents' = Del(agents, name)
            /\ last' = Ret("Unregister", name, "", "ok", "",
                           Len(ActiveClaims(agents[name], now)))
    /\ got' = Detach(name, FALSE, FALSE)
    /\ UNCHANGED <<now, dir, inodes, pc, mu, savers>>

\* a Heartbeat that registers the agent it does not find
HeartbeatRegisters(name) ==
    /\ CanLock
    /\ IF name \notin DOMAIN agents
       THEN /\ agents' = Put(agents, name, NewAgentRegistration(name, "", "heartbeat"))
            /\ last' = Ret("Heartbeat", name, "", "ok", "", "")
       ELSE /\ agents' = [agents EXCEPT ![name].LastSeen = now,
                                        ![name].Status = AgentStatusActive]
            /\ last' = Ret("Heartbeat", name, "", "ok", "", agents[name].Status)
    /\ got' = got
    /\ UNCHANGED <<now, dir, inodes, pc, mu, savers>>

\* a Heartbeat that leaves the status as it finds it
HeartbeatKeepsStatus(name) ==
    /\ CanLock
    /\ IF name \notin DOMAIN agents
       THEN /\ agents' = agents
            /\ last' = Ret("Heartbeat", name, "", "notfound", "", "")
       ELSE /\ agents' = [agents EXCEPT ![name].LastSeen = now]
            /\ last' = Ret("Heartbeat", name, "", "ok", "", agents[name].Status)
    /\ got' = got
    /\ UNCHANGED <<now, dir, inodes, pc, mu, savers>>

\* a Heartbeat that also renews the leases of the agent
HeartbeatExtends(name) ==
    /\ CanLock
    /\ IF name \notin DOMAIN agents
       THEN /\ agents' = agents
            /\ last' = Ret("Heartbeat", name, "", "notfound", "", "")
       ELSE /\ agents' = [agents EXCEPT
                            ![name].LastSeen = now,
                            ![name].Status = AgentStatusActive,
                            ![name].ClaimedWork =
                                [i \in DOMAIN @ |->
                                    [@[i] EXCEPT !.ExpiresAt = now + DefaultClaimExpiry]]]
            /\ last' = Ret("Heartbeat", name, "", "ok", "", agents[name].Status)
    /\ got' = got
    /\ UNCHANGED <<now, dir, inodes, pc, mu, savers>>

\* Heartbeat; the result records the status the agent had
Heartbeat(name) ==
    /\ CanLock
    /\ IF name \notin DOMAIN agents
       THEN /\ agents' = agents
            /\ last' = Ret("Heartbeat", name, "", "notfound", "", "")
       ELSE /\ agents' = [agents EXCEPT ![name].LastSeen = now,
                                        ![name].Status = AgentStatusActive]
            /\ last' = Ret("Heartbeat", name, "", "ok", "", agents[name].Status)
    /\ got' = got
    /\ UNCHANGED <<now, dir, inodes, pc, mu, savers>>

\* Claim, the conflict scan: the other agents holding an unexpired claim on
\* the bead.  The scan returns at the first one the map iteration meets.
ConflictHolders(agentName, claim) ==
    {n \in DOMAIN agents :
        /\ agents[n].Name # agentName
        /\ \E i \in DOMAIN agents[n].ClaimedWork :
              /\ agents[n].ClaimedWork[i].BeadID = claim.BeadID
              /\ ~IsExpired(agents[n].ClaimedWork[i], now)}

\* a Claim insert that keeps the agent's earlier claim on the bead
ClaimedAppends(agentName, claim) ==
    [agents EXCEPT
       ![agentName].ClaimedWork = @ \o <<claim>>,
       ![agentName].NilClaims = FALSE,
       ![agentName].LastSeen = now]

\* Claim, the insert: the agent's own claim on the bead is replaced
Claimed(agentName, claim) ==
    [agents EXCEPT
       ![agentName].ClaimedWork =
           SelectSeq(@, LAMBDA c : c.BeadID # claim.BeadID) \o <<claim>>,
       ![agentName].NilClaims = FALSE,
       ![agentName].LastSeen = now]

\* a Claim that refreshes the caller's last-seen before the conflict scan
ClaimOutcomesTouch(agentName, claim) ==
    IF ClaimValidate(claim) # "ok"
    THEN {[err |-> "validation", holder |-> "", agents |-> agents]}
    ELSE IF agentName \notin DOMAIN agents
    THEN {[err |-> "notfound", holder |-> "", agents |-> agents]}
    ELSE IF ConflictHolders(agentName, claim) # {}
    THEN {[err |-> "conflict", holder |-> agents[h].Name,
           agents |-> [agents EXCEPT ![agentName].LastSeen = now]] :
             h \in ConflictHolders(agentName, claim)}
    ELSE {[err |-> "ok", holder |-> "", agents |-> Claimed(agentName, claim)]}

\* a Claim that, when it succeeds, clears the expired claims the other agents
\* still list on the bead
ClaimOutcomesTidy(agentName, claim) ==
    IF ClaimValidate(claim) # "ok"
    THEN {[err |-> "validation", holder |-> "", agents |-> agents]}
    ELSE IF agentName \notin DOMAIN agents
    THEN {[err |-> "notfound", holder |-> "", agents |-> agents]}
    ELSE IF ConflictHolders(agentName, claim) # {}
    THEN {[err |-> "conflict", holder |-> agents[h].Name, agents |-> agents] :
             h \in ConflictHolders(agentName, claim)}
    ELSE {[err |-> "ok", holder |-> "",
           agents |-> [n \in DOMAIN agents |->
                         IF n = agentName THEN Claimed(agentName, claim)[n]
                         ELSE [agents[n] EXCEPT !.ClaimedWork =
                                 SelectSeq(@, LAMBDA c : c.BeadID # claim.BeadID)]]]}

\* Claim: the possible results, as [err, holder, agents]
ClaimOutcomes(agentName, claim) ==
    IF ClaimValidate(claim) # "ok"
    THEN {[err |-> "validation", holder |-> "", agents |-> agents]}
    ELSE IF agentName \notin DOMAIN agents
    THEN {[err |-> "notfound", holder |-> "", agents |-> agents]}
    ELSE IF ConflictHolders(agentName, claim) # {}
    THEN {[err |-> "conflict", holder |-> agents[h].Name, agents |-> agents] :
             h \in ConflictHolders(agentName, claim)}
    ELSE {[err |-> "ok", holder |-> "", agents |-> Claimed(agentName, claim)]}

Claim(agentName, claim) ==
    /\ ClaimValidate(claim) = "ok" => CanLock
    /\ \E o \in ClaimOutcomes(agentName, claim) :
          /\ agents' = o.agents
          /\ last' = Ret("Claim", agentName, claim.BeadID, o.err, o.holder, claim)
    /\ got' = IF last'.err = "ok" THEN Detach(agentName, FALSE, TRUE) ELSE got
    /\ UNCHANGED <<now, dir, inodes, pc, mu, savers>>

\* a Release that takes every claim of the agent with it
ReleaseDropsAll(agentName, beadID) ==
    /\ CanLock
    /\ IF agentName \notin DOMAIN agents
       THEN /\ agents' = agents
            /\ last' = Ret("Release", agentName, beadID, "notfound", "", NoArg)
       ELSE LET found == \E c \in Range(agents[agentName].ClaimedWork) :
                            c.BeadID = beadID
            IN IF ~found
               THEN /\ agents' = agents
                    /\ last' = Ret("Release", agentName, beadID, "notfound", "", NoArg)
               ELSE /\ agents' = [agents EXCEPT
                                    ![agentName].ClaimedWork = <<>>,
                                    ![agentName].NilClaims = TRUE,
                                    ![agentName].LastSeen = now]
                    /\ last' = Ret("Release", agentName, beadID, "ok", "", NoArg)
    /\ got' = IF last'.err = "ok" THEN Detach(agentName, FALSE, TRUE) ELSE got
    /\ UNCHANGED <<now, dir, inodes, pc, mu, savers>>

\* a Release that reports success when the agent has no claim on the bead
ReleaseAbsentOk(agentName, beadID) ==
    /\ CanLock
    /\ IF agentName \notin DOMAIN agents
       THEN /\ agents' = agents
            /\ last' = Ret("Release", agentName, beadID, "notfound", "", NoArg)
       ELSE LET newClaims == SelectSeq(agents[agentName].ClaimedWork,
                                       LAMBDA c : c.BeadID # beadID)
            IN /\ agents' = [agents EXCEPT
                               ![agentName].ClaimedWork = newClaims,
                               ![agentName].NilClaims = (newClaims = <<>>),
                               ![agentName].LastSeen = now]
               /\ last' = Ret("Release", agentName, beadID, "ok", "", NoArg)
    /\ got' = IF last'.err = "ok" THEN Detach(agentName, FALSE, TRUE) ELSE got
    /\ UNCHANGED <<now, dir, inodes, pc, mu, savers>>

Release(agentName, beadID) ==
    /\ CanLock
    /\ IF agentName \notin DOMAIN agents
       THEN /\ agents' = agents
            /\ last' = Ret("Release", agentName, beadID, "notfound", "", NoArg)
       ELSE LET newClaims == SelectSeq(agents[agentName].ClaimedWork,
                                       LAMBDA c : c.BeadID # beadID)
                found == \E c \in Range(agents[agentName].ClaimedWork) :
                            c.BeadID = beadID
            IN IF ~found
               THEN /\ agents' = agents
                    /\ last' = Ret("Release", agentName, beadID, "notfound", "", NoArg)
               ELSE /\ agents' = [agents EXCEPT
                                    ![agentName].ClaimedWork = newClaims,
                                    ![agentName].NilClaims = (newClaims = <<>>),
                                    ![agentName].LastSeen = now]
                    /\ last' = Ret("Release", agentName, beadID, "ok", "", NoArg)
    /\ got' = IF last'.err = "ok" THEN Detach(agentName, FALSE, TRUE) ELSE got
    /\ UNCHANGED <<now, dir, inodes, pc, mu, savers>>

\* an AddFileHint that turns away a pattern another agent has a live hint on
AddFileHintExclusive(agentName, hint) ==
    /\ CanLock
    /\ IF agentName \notin DOMAIN agents
       THEN /\ agents' = agents
            /\ last' = Ret("AddFileHint", agentName, hint.BeadID, "notfound", "", hint)
       ELSE IF \E m \in DOMAIN agents \ {agentName} :
                  \E h \in Range(agents[m].FileHints) :
                      h.Pattern = hint.Pattern /\ ~IsExpired(h, now)
       THEN /\ agents' = agents
            /\ last' = Ret("AddFileHint", agentName, hint.BeadID, "conflict", "", hint)
       ELSE /\ agents' = [agents EXCEPT
                            ![agentName].FileHints = Append(@, hint),
                            ![agentName].NilHints = FALSE,
                            ![agentName].LastSeen = now]
            /\ last' = Ret("AddFileHint", agentName, hint.BeadID, "ok", "", hint)
    /\ got' = Detach(agentName, TRUE, FALSE)
    /\ UNCHANGED <<now, dir, inodes, pc, mu, savers>>

AddFileHint(agentName, hint) ==
    /\ CanLock
    /\ IF agentName \notin DOMAIN agents
       THEN /\ agents' = agents
            /\ last' = Ret("AddFileHint", agentName, hint.BeadID, "notfound", "", hint)
       ELSE /\ agents' = [agents EXCEPT
                            ![agentName].FileHints = Append(@, hint),
                            ![agentName].NilHints = FALSE,
                            ![agentName].LastSeen = now]
            /\ last' = Ret("AddFileHint", agentName, hint.BeadID, "ok", "", hint)
    /\ got' = Detach(agentName, TRUE, FALSE)
    /\ UNCHANGED <<now, dir, inodes, pc, mu, savers>>

RemoveFileHint(agentName, pattern) ==
    /\ CanLock
    /\ IF agentName \notin DOMAIN agents
       THEN /\ agents' = agents
            /\ last' = Ret("RemoveFileHint", agentName, "", "notfound", "", NoArg)
       ELSE LET newHints == SelectSeq(agents[agentName].FileHints,
                                      LAMBDA h : h.Pattern # pattern)
            IN /\ agents' = [agents EXCEPT
                               ![agentName].FileHints = newHints,
                               ![agentName].NilHints = (newHints = <<>>),
                               ![agentName].LastSeen = now]
               /\ last' = Ret("RemoveFileHint", agentName, "", "ok", "", NoArg)
    /\ got' = Detach(agentName, TRUE, FALSE)
    /\ UNCHANGED <<now, dir, inodes, pc, mu, savers>>

\* a sweep that also takes every claim of an agent it marks Gone
SweptGoneLosesClaims(a) ==
    LET activeClaims == IF IsStale(a, DefaultStaleThreshold) THEN <<>>
                        ELSE SelectSeq(a.ClaimedWork, LAMBDA c : ~IsExpired(c, now))
        activeHints == SelectSeq(a.FileHints, LAMBDA h : ~IsExpired(h, now))
    IN [a EXCEPT
          !.ClaimedWork = activeClaims,
          !.NilClaims = (activeClaims = <<>>),
          !.FileHints = activeHints,
          !.NilHints = (activeHints = <<>>),
          !.Status = IF IsStale(a, DefaultStaleThreshold) THEN AgentStatusGone
                     ELSE IF ~IsActive(a, DefaultInactivityThreshold)
                          THEN AgentStatusInactive
                          ELSE @]

\* CleanupExpired, one agent of the sweep
Swept(a) ==
    LET activeClaims == SelectSeq(a.ClaimedWork, LAMBDA c : ~IsExpired(c, now))
        activeHints == SelectSeq(a.FileHints, LAMBDA h : ~IsExpired(h, now))
    IN [a EXCEPT
          !.ClaimedWork = activeClaims,
          !.NilClaims = (activeClaims = <<>>),
          !.FileHints = activeHints,
          !.NilHints = (activeHints = <<>>),
          !.Status = IF IsStale(a, DefaultStaleThreshold) THEN AgentStatusGone
                     ELSE IF ~IsActive(a, DefaultInactivityThreshold)
                          THEN AgentStatusInactive
                          ELSE @]

\* how many claims and hints of the registry have expired
ExpiredCount ==
    [claims |-> Cardinality(UNION {{<<n, i>> : i \in {j \in DOMAIN agents[n].ClaimedWork :
                                        IsExpired(agents[n].ClaimedWork[j], now)}} :
                                   n \in DOMAIN agents}),
     hints |-> Cardinality(UNION {{<<n, i>> : i \in {j \in DOMAIN agents[n].FileHints :
                                       IsExpired(agents[n].FileHints[j], now)}} :
                                  n \in DOMAIN agents})]

\* a sweep that also deletes the agents it finds stale
CleanupExpiredDropsGone ==
    /\ CanLock
    /\ agents' = [n \in {m \in DOMAIN agents : ~IsStale(agents[m], DefaultStaleThreshold)} |->
                     Swept(agents[n])]
    /\ last' = Ret("CleanupExpired", "", "", "ok", "", ExpiredCount)
    /\ got' = [got EXCEPT !.sharesClaims = FALSE, !.sharesHints = FALSE]
    /\ UNCHANGED <<now, dir, inodes, pc, mu, savers>>

CleanupExpired ==
    /\ CanLock
    /\ agents' = [n \in DOMAIN agents |-> Swept(agents[n])]
    /\ last' = Ret("CleanupExpired", "", "", "ok", "", ExpiredCount)
    /\ got' = [got EXCEPT !.sharesClaims = FALSE, !.sharesHints = FALSE]
    /\ UNCHANGED <<now, dir, inodes, pc, mu, savers>>

\* time passes, up to a horizon
Advance(horizon) ==
    /\ now < horizon
    /\ now' = now + 1
    /\ last' = Ret("Tick", "", "", "ok", "", NoArg)
    /\ UNCHANGED <<agents, dir, inodes, pc, mu, savers, got>>

Tick == Advance(MaxTime)

----------------------------------------------------------------------------
\* The snapshot file agents.jsonl.  A file is the sequence of its lines; a
\* line is the JSON object it holds and its length in bytes.  A directory
\* entry names an inode, and an open file keeps its inode and its own offset,
\* counted in lines.

\* a Save that writes the snapshot file in place
TmpPathInPlace == "canon"

TmpPath == "tmp"          \* AgentsFilePath() + ".tmp"
CanonPath == "canon"      \* AgentsFilePath()

\* the bytes of a string: the long pattern stands for one of 70000 bytes
StrBytes(str) == IF str = LongPattern THEN 70000 ELSE Len(str)

RECURSIVE SumSeq(_)
SumSeq(ns) == IF ns = <<>> THEN 0 ELSE Head(ns) + SumSeq(Tail(ns))

\* json.Encoder.Encode of a WorkClaim, a FileHint and an AgentRegistration:
\* the object written, a nil slice as null
EncodeClaim(c) ==
    [bead_id |-> c.BeadID, agent |-> c.Agent, claimed_at |-> c.ClaimedAt,
     expires_at |-> c.ExpiresAt, reason |-> c.Reason]
EncodeHint(h) ==
    [pattern |-> h.Pattern, agent |-> h.Agent, bead_id |-> h.BeadID,
     created_at |-> h.CreatedAt, expires_at |-> h.ExpiresAt]
EncodeAgent(a) ==
    [name |-> a.Name, model |-> a.Model, program |-> a.Program,
     started_at |-> a.StartedAt, last_seen |-> a.LastSeen,
     claimed_work |-> [null |-> a.NilClaims,
                       items |-> [i \in DOMAIN a.ClaimedWork |->
                                     EncodeClaim(a.ClaimedWork[i])]],
     file_hints |-> [null |-> a.NilHints,
                     items |-> [i \in DOMAIN a.FileHints |->
                                   EncodeHint(a.FileHints[i])]],
     status |-> a.Status]

\* the length of the encoded line: keys, punctuation and the RFC 3339 times
\* are counted as 100 bytes per object
ClaimBytes(c) == 100 + StrBytes(c.BeadID) + StrBytes(c.Agent) + StrBytes(c.Reason)
HintBytes(h) == 100 + StrBytes(h.Pattern) + StrBytes(h.Agent) + StrBytes(h.BeadID)
AgentBytes(a) ==
    100 + StrBytes(a.Name) + StrBytes(a.Model) + StrBytes(a.Program)
        + StrBytes(a.Status)
        + SumSeq([i \in DOMAIN a.ClaimedWork |-> ClaimBytes(a.ClaimedWork[i])])
        + SumSeq([i \in DOMAIN a.FileHints |-> HintBytes(a.FileHints[i])])

EncodedLine(a) == [kind |-> "json", len |-> AgentBytes(a), obj |-> EncodeAgent(a)]

\* the bytes a write left unwritten before its offset
HoleLine == [kind |-> "hole", len |-> 1, obj |-> <<>>]

\* json.Unmarshal into a fresh AgentRegistration
DecodeClaim(o) ==
    [BeadID |-> o.bead_id, Agent |-> o.agent, ClaimedAt |-> o.claimed_at,
     ExpiresAt |-> o.expires_at, Reason |-> o.reason]
DecodeHint(o) ==
    [Pattern |-> o.pattern, Agent |-> o.agent, BeadID |-> o.bead_id,
     CreatedAt |-> o.created_at, ExpiresAt |-> o.expires_at]
DecodeAgent(o) ==
    [Name |-> o.name, Model |-> o.model, Program |-> o.program,
     StartedAt |-> o.started_at, LastSeen |-> o.last_seen,
     ClaimedWork |-> [i \in DOMAIN o.claimed_work.items |->
                         DecodeClaim(o.claimed_work.items[i])],
     NilClaims |-> o.claimed_work.null,
     FileHints |-> [i \in DOMAIN o.file_hints.items |->
                       DecodeHint(o.file_hints.items[i])],
     NilHints |-> o.file_hints.null,
     Status |-> o.status]

\* Load, the scan of the lines: bufio.Scanner gives up on a line that does
\* not fit its buffer, an empty line is skipped, a line that is no JSON
\* object ends the load with a parse error naming it.  The map keeps what
\* was read before the error.
RECURSIVE ScanLines(_, _, _)
ScanLines(lines, lineNum, acc) ==
    IF lines = <<>> THEN [err |-> "ok", line |-> 0, agents |-> acc]
    ELSE LET l == Head(lines)
         IN IF l.len >= MaxScanTokenSize
            THEN [err |-> "read", line |-> 0, agents |-> acc]
            ELSE IF l.len = 0
            THEN ScanLines(Tail(lines), lineNum + 1, acc)
            ELSE IF l.kind # "json"
            THEN [err |-> "parse", line |-> lineNum + 1, agents |-> acc]
            ELSE ScanLines(Tail(lines), lineNum + 1,
                           Put(acc, l.obj.name, DecodeAgent(l.obj)))

\* a Load that leaves the registry alone when there is no file
LoadResultKeep(d, ino) ==
    IF d[CanonPath] = 0 THEN [err |-> "ok", line |-> 0, agents |-> agents]
    ELSE ScanLines(ino[d[CanonPath]], 0, EmptyMap)

\* Load of what the directory holds
LoadResult(d, ino) ==
    IF d[CanonPath] = 0 THEN [err |-> "ok", line |-> 0, agents |-> EmptyMap]
    ELSE ScanLines(ino[d[CanonPath]], 0, EmptyMap)

Load ==
    /\ CanLock
    /\ LET r == LoadResult(dir, inodes)
       IN /\ agents' = r.agents
          /\ last' = Ret("Load", "", "", r.err, "", [line |-> r.line, had |-> DOMAIN agents])
    /\ got' = [got EXCEPT !.sharesClaims = FALSE, !.sharesHints = FALSE]
    /\ UNCHANGED <<now, dir, inodes, pc, mu, savers>>

\* Save, step by step.  A saver is one call of Save: where it is, the inode
\* it has open, its offset and the records still to encode, in the order the
\* map iteration gives them.
Idle == [at |-> "idle", fd |-> 0, off |-> 0, todo |-> <<>>, err |-> ""]

\* the orders in which a range over the map may visit the names
Orders(S) ==
    {o \in [1..Cardinality(S) -> S] : \A i, j \in DOMAIN o : i # j => o[i] # o[j]}

\* inodes that no directory entry and no open file refers to hold nothing
OpenFds(sv) == {sv[s].fd : s \in {x \in DOMAIN sv : sv[x].at \in {"encode", "close"}}}
Gc(ino, d, sv) ==
    [i \in DOMAIN ino |->
        IF i \in {d[CanonPath], d[TmpPath]} \cup OpenFds(sv) THEN ino[i] ELSE <<>>]
FreeInode ==
    CHOOSE i \in 1..MaxInodes :
        /\ i \notin {dir[CanonPath], dir[TmpPath]} \cup OpenFds(savers)
        /\ \A j \in 1..(i - 1) : j \in {dir[CanonPath], dir[TmpPath]} \cup OpenFds(savers)

\* file.Write at the open file's offset
WriteAt(content, off, line) ==
    [i \in 1..(IF off + 1 > Len(content) THEN off + 1 ELSE Len(content)) |->
        IF i = off + 1 THEN line
        ELSE IF i <= Len(content) THEN content[i]
        ELSE HoleLine]

\* os.Remove(path)
Removed(d, path) == [d EXCEPT ![path] = 0]

SaveReturn(s, err) ==
    /\ last' = Ret("Save", s, "", err, "", NoArg)
    /\ UNCHANGED <<now, agents, pc, mu, got>>

\* s.mu.RLock(), os.MkdirAll
SaveStart(s) ==
    /\ savers[s].at \in {"idle", "done"}
    /\ CanRLock
    /\ \E o \in Orders(DOMAIN agents) :
          savers' = [savers EXCEPT ![s] = [Idle EXCEPT !.at = "create", !.todo = o]]
    /\ last' = Ret("Saving", s, "", "", "", NoArg)
    /\ UNCHANGED <<now, agents, dir, inodes, pc, mu, got>>

\* an os.Create that opens the file that is there without emptying it
SaveCreateKeeps(s) ==
    /\ savers[s].at = "create"
    /\ LET id == IF dir[TmpPath] # 0 THEN dir[TmpPath] ELSE FreeInode
       IN /\ dir' = [dir EXCEPT ![TmpPath] = id]
          /\ inodes' = inodes
          /\ savers' = [savers EXCEPT
                          ![s].fd = id,
                          ![s].off = 0,
                          ![s].at = IF savers[s].todo = <<>> THEN "close" ELSE "encode"]
    /\ last' = Ret("Saving", s, "", "", "", NoArg)
    /\ UNCHANGED <<now, agents, pc, mu, got>>

\* os.Create(tmpPath): the file is created, or the one there is emptied
SaveCreate(s) ==
    /\ savers[s].at = "create"
    /\ LET id == IF dir[TmpPath] # 0 THEN dir[TmpPath] ELSE FreeInode
       IN /\ dir' = [dir EXCEPT ![TmpPath] = id]
          /\ inodes' = [inodes EXCEPT ![id] = <<>>]
          /\ savers' = [savers EXCEPT
                          ![s].fd = id,
                          ![s].off = 0,
                          ![s].at = IF savers[s].todo = <<>> THEN "close" ELSE "encode"]
    /\ last' = Ret("Saving", s, "", "", "", NoArg)
    /\ UNCHANGED <<now, agents, pc, mu, got>>

SaveCreateFail(s) ==
    /\ savers[s].at = "create"
    /\ savers' = [savers EXCEPT ![s] = [Idle EXCEPT !.at = "done", !.err = "create"]]
    /\ UNCHANGED <<dir, inodes>>
    /\ SaveReturn(s, "create")

\* encoder.Encode(agent): one record written at the offset
SaveEncode(s) ==
    /\ savers[s].at = "encode"
    /\ LET sv == savers[s]
       IN /\ inodes' = [inodes EXCEPT ![sv.fd] =
                           WriteAt(@, sv.off, EncodedLine(agents[Head(sv.todo)]))]
          /\ savers' = [savers EXCEPT
                          ![s].off = sv.off + 1,
                          ![s].todo = Tail(sv.todo),
                          ![s].at = IF Tail(sv.todo) = <<>> THEN "close" ELSE "encode"]
    /\ last' = Ret("Saving", s, "", "", "", NoArg)
    /\ UNCHANGED <<now, agents, dir, pc, mu, got>>

\* a failed step closes the file and removes tmpPath
SaveFail(s, at, err) ==
    /\ savers[s].at = at
    /\ savers' = [savers EXCEPT ![s] = [Idle EXCEPT !.at = "done", !.err = err]]
    /\ dir' = Removed(dir, TmpPath)
    /\ inodes' = Gc(inodes, dir', savers')
    /\ SaveReturn(s, err)

SaveEncodeFail(s) == SaveFail(s, "encode", "encode")

\* file.Close()
SaveClose(s) ==
    /\ savers[s].at = "close"
    /\ savers' = [savers EXCEPT ![s].at = "rename", ![s].fd = 0]
    /\ inodes' = Gc(inodes, dir, savers')
    /\ last' = Ret("Saving", s, "", "", "", NoArg)
    /\ UNCHANGED <<now, agents, dir, pc, mu, got>>

SaveCloseFail(s) == SaveFail(s, "close", "close")

\* os.Rename(tmpPath, path): fails when tmpPath names no file
SaveRename(s) ==
    /\ savers[s].at = "rename"
    /\ IF dir[TmpPath] = 0
       THEN /\ savers' = [savers EXCEPT ![s] = [Idle EXCEPT !.at = "done", !.err = "rename"]]
            /\ UNCHANGED <<dir, inodes>>
            /\ SaveReturn(s, "rename")
       ELSE /\ savers' = [savers EXCEPT ![s] = [Idle EXCEPT !.at = "done", !.err = "ok"]]
            /\ dir' = [dir EXCEPT ![CanonPath] = dir[TmpPath], ![TmpPath] = 0]
            /\ inodes' = Gc(inodes, dir', savers')
            /\ SaveReturn(s, "ok")

SaveRenameFail(s) == SaveFail(s, "rename", "rename")

\* the process dies: every Save in progress stops where it is
Crash ==
    /\ \E s \in DOMAIN savers : savers[s].at \in {"create", "encode", "close", "rename"}
    /\ savers' = [s \in DOMAIN savers |->
                    IF savers[s].at \in {"create", "encode", "close", "rename"}
                    THEN [savers[s] EXCEPT !.at = "crashed"]
                    ELSE savers[s]]
    /\ last' = Ret("Crash", "", "", "ok", "", NoArg)
    /\ UNCHANGED <<now, agents, dir, inodes, pc, mu, got>>

----------------------------------------------------------------------------
\* The calls the callers make

\* records a caller passes to Register: built by NewAgentRegistration (empty
\* lists), by a struct literal (nil lists), one that carries a claim, and the
\* invalid ones
RegInputs(N) ==
    LET base(n) == NewAgentRegistration(n, "model", "program")
    IN UNION {
         { base(n),
           [base(n) EXCEPT !.NilClaims = TRUE, !.NilHints = TRUE],
           [base(n) EXCEPT !.ClaimedWork =
                              <<NewWorkClaim("b1", n, ClaimReasonImplementing)>>,
                           !.NilHints = TRUE] } : n \in N }
       \cup { [base("") EXCEPT !.NilClaims = TRUE],
              [base("a1") EXCEPT !.Program = ""],
              [base("a1") EXCEPT !.Status = "bogus"] }

\* claims a caller passes to Claim: built by NewWorkClaim, and the malformed
\* ones
ClaimInputs(agentName, B) ==
    LET c(b) == NewWorkClaim(b, agentName, ClaimReasonImplementing)
    IN { c(b) : b \in B }
       \cup { [c("b1") EXCEPT !.BeadID = ""],
              [c("b1") EXCEPT !.Agent = ""],
              [c("b1") EXCEPT !.ClaimedAt = ZeroTime],
              [c("b1") EXCEPT !.ExpiresAt = ZeroTime],
              [c("b1") EXCEPT !.Reason = "bogus"] }

HintInputs(agentName) ==
    { NewFileHint("main.go", agentName, "b1") }

DoRegister(N) == \E reg \in RegInputs(N) : Register(reg)
DoUnregister(N) == \E n \in N : Unregister(n)
DoHeartbeat(N) == \E n \in N : Heartbeat(n)
DoClaim(N, B) == \E n \in N : \E c \in ClaimInputs(n, B) : Claim(n, c)
DoRelease(N, B) == \E n \in N : \E b \in B : Release(n, b)
DoAddFileHint(N) ==
    \E n \in N : \E h \in HintInputs(n) :
        /\ n \in DOMAIN agents => Len(agents[n].FileHints) < MaxHints
        /\ AddFileHint(n, h)
DoRemoveFileHint(N) == \E n \in N : RemoveFileHint(n, "main.go")

NoFiles == [canon |-> 0, tmp |-> 0]
NoInodes == [i \in 1..MaxInodes |-> <<>>]

Init ==
    /\ now = 1
    /\ agents = EmptyMap
    /\ dir = NoFiles
    /\ inodes = NoInodes
    /\ last = Ret("NewStore", "", "", "ok", "", NoArg)
    /\ pc = EmptyMap
    /\ mu = NoOne
    /\ savers = EmptyMap
    /\ got = NoGot

\* The lease core: two agents and one work item
Next ==
    \/ Tick
    \/ DoRegister(Names)
    \/ DoUnregister(Names)
    \/ DoHeartbeat(Names)
    \/ DoClaim(Names, OneBead)
    \/ DoRelease(Names, OneBead)
    \/ CleanupExpired

Spec == Init /\ [][Next]_vars

----------------------------------------------------------------------------
\* Saving: one store, one Save at a time, failures and a crash at any step

DoRegisterNew(N) == \E n \in N : Register(NewAgentRegistration(n, "model", "program"))
DoClaimNew(N, B) ==
    \E n \in N : \E b \in B : Claim(n, NewWorkClaim(b, n, ClaimReasonImplementing))
DoAddFileHintAny(N) ==
    \E n \in N : \E p \in Patterns :
        /\ n \in DOMAIN agents => Len(agents[n].FileHints) < MaxHints
        /\ AddFileHint(n, NewFileHint(p, n, "b1"))

DoSaveStart == \E s \in DOMAIN savers : SaveStart(s)
DoSaveCreate == \E s \in DOMAIN savers : SaveCreate(s)
DoSaveCreateFail == \E s \in DOMAIN savers : SaveCreateFail(s)
DoSaveEncode == \E s \in DOMAIN savers : SaveEncode(s)
DoSaveEncodeFail == \E s \in DOMAIN savers : SaveEncodeFail(s)
DoSaveClose == \E s \in DOMAIN savers : SaveClose(s)
DoSaveCloseFail == \E s \in DOMAIN savers : SaveCloseFail(s)
DoSaveRename == \E s \in DOMAIN savers : SaveRename(s)
DoSaveRenameFail == \E s \in DOMAIN savers : SaveRenameFail(s)

InitSave ==
    /\ now = 1
    /\ agents = EmptyMap
    /\ dir = NoFiles
    /\ inodes = NoInodes
    /\ last = Ret("NewStore", "", "", "ok", "", NoArg)
    /\ pc = EmptyMap
    /\ mu = NoOne
    /\ savers = [s \in {"s1"} |-> Idle]
    /\ got = NoGot

SaveSteps ==
    \/ DoSaveStart
    \/ DoSaveCreate
    \/ DoSaveCreateFail
    \/ DoSaveEncode
    \/ DoSaveEncodeFail
    \/ DoSaveClose
    \/ DoSaveCloseFail
    \/ DoSaveRename
    \/ DoSaveRenameFail
    \/ Crash

NextSave ==
    \/ DoRegisterNew(Names)
    \/ DoUnregister(Names)
    \/ DoClaimNew(Names, OneBead)
    \/ SaveSteps

SpecSave == InitSave /\ [][NextSave]_vars

\* Saving: two Save calls at once on a registry of two agents, and Load
InitSave2 ==
    /\ now = 1
    /\ agents = [n \in Names |-> NewAgentRegistration(n, "model", "program")]
    /\ dir = NoFiles
    /\ inodes = NoInodes
    /\ last = Ret("Register", "a2", "", "ok", "", NoArg)
    /\ pc = EmptyMap
    /\ mu = NoOne
    /\ savers = [s \in {"s1", "s2"} |-> Idle]
    /\ got = NoGot

NextSave2 ==
    \/ SaveSteps
    \/ Load

SpecSave2 == InitSave2 /\ [][NextSave2]_vars

\* The snapshot round trip: Save, then what Load makes of the file
NextSnap ==
    \/ DoRegisterNew(Names)
    \/ DoUnregister(Names)
    \/ DoClaimNew(Names, OneBead)
    \/ DoAddFileHintAny(Names)
    \/ DoSaveStart
    \/ DoSaveCreate
    \/ DoSaveEncode
    \/ DoSaveClose
    \/ DoSaveRename
    \/ Load

SpecSnap == InitSave /\ [][NextSnap]_vars

----------------------------------------------------------------------------
\* Loading: the directory holds no file, or a file of up to MaxLines lines
\* that Save or anything else wrote: records, blank lines, lines that are no
\* JSON, and such a line too long for the scanner.

BlankLine == [kind |-> "blank", len |-> 0, obj |-> <<>>]
BadLine == [kind |-> "text", len |-> 7, obj |-> <<>>]
LongBadLine == [kind |-> "text", len |-> 70000, obj |-> <<>>]

FileLines ==
    {EncodedLine(NewAgentRegistration(n, "model", "program")) : n \in Names}
        \cup {BlankLine, BadLine, LongBadLine}

Files == UNION {[1..k -> FileLines] : k \in 0..MaxLines}

InitLoad ==
    /\ now = 1
    /\ agents = EmptyMap
    /\ \E present \in BOOLEAN : dir = [canon |-> IF present THEN 1 ELSE 0, tmp |-> 0]
    /\ \E f \in Files :
          inodes = [i \in 1..MaxInodes |-> IF i = 1 /\ dir[CanonPath] = 1 THEN f ELSE <<>>]
    /\ last = Ret("NewStore", "", "", "ok", "", NoArg)
    /\ pc = EmptyMap
    /\ mu = NoOne
    /\ savers = EmptyMap
    /\ got = NoGot

NextLoad ==
    \/ Tick
    \/ DoRegisterNew(Names)
    \/ DoUnregister(Names)
    \/ Load

SpecLoad == InitLoad /\ [][NextLoad]_vars

----------------------------------------------------------------------------
\* Concurrent Claim calls, statement by statement.  Three registered agents
\* each call Claim once for the same work item; a fourth agent calls nothing
\* and may hold the work item from the start.

Callers == {"a1", "a2", "a3"}
Bystander == "a4"
NotCalling == [at |-> "idle", claim |-> <<>>, err |-> "", holder |-> ""]

\* the claims the callers pass: one built by NewWorkClaim, and one whose
\* lease ends the instant it starts
RaceClaims(n) ==
    LET c == NewWorkClaim("b1", n, ClaimReasonImplementing)
    IN {c, [c EXCEPT !.ExpiresAt = c.ClaimedAt]}

Claiming(n) == Ret("Claiming", n, "b1", "", "", NoArg)

\* the caller builds its claim; claim.Validate() passes
ClaimStart(n) ==
    /\ pc[n].at = "idle"
    /\ \E c \in RaceClaims(n) :
          /\ ClaimValidate(c) = "ok"
          /\ pc' = [pc EXCEPT ![n].at = "lock", ![n].claim = c]
    /\ last' = Claiming(n)
    /\ UNCHANGED <<now, agents, dir, inodes, mu, savers, got>>

\* s.mu.Lock()
ClaimLock(n) ==
    /\ pc[n].at = "lock"
    /\ CanLock
    /\ mu' = n
    /\ pc' = [pc EXCEPT ![n].at = "scan"]
    /\ last' = Claiming(n)
    /\ UNCHANGED <<now, agents, dir, inodes, savers, got>>

\* the lookup of the caller and the scan for another holder
ClaimScan(n) ==
    /\ pc[n].at = "scan"
    /\ IF n \notin DOMAIN agents
       THEN pc' = [pc EXCEPT ![n].at = "unlock", ![n].err = "notfound"]
       ELSE IF ConflictHolders(n, pc[n].claim) # {}
       THEN \E h \in ConflictHolders(n, pc[n].claim) :
               pc' = [pc EXCEPT ![n].at = "unlock", ![n].err = "conflict",
                                ![n].holder = agents[h].Name]
       ELSE pc' = [pc EXCEPT ![n].at = "insert"]
    /\ last' = Claiming(n)
    /\ UNCHANGED <<now, agents, dir, inodes, mu, savers, got>>

\* the caller's claim list is rebuilt with the new claim
ClaimInsert(n) ==
    /\ pc[n].at = "insert"
    /\ agents' = Claimed(n, pc[n].claim)
    /\ pc' = [pc EXCEPT ![n].at = "unlock", ![n].err = "ok"]
    /\ last' = Claiming(n)
    /\ got' = Detach(n, FALSE, TRUE)
    /\ UNCHANGED <<now, dir, inodes, mu, savers>>

\* the deferred s.mu.Unlock(), and the return
ClaimUnlock(n) ==
    /\ pc[n].at = "unlock"
    /\ mu' = NoOne
    /\ pc' = [pc EXCEPT ![n].at = "done"]
    /\ last' = Ret("Claim", n, pc[n].claim.BeadID, pc[n].err, pc[n].holder,
                   pc[n].claim)
    /\ UNCHANGED <<now, agents, dir, inodes, savers, got>>

DoClaimStart == \E n \in Callers : ClaimStart(n)
DoClaimLock == \E n \in Callers : ClaimLock(n)
DoClaimScan == \E n \in Callers : ClaimScan(n)
DoClaimInsert == \E n \in Callers : ClaimInsert(n)
DoClaimUnlock == \E n \in Callers : ClaimUnlock(n)

InitRace ==
    /\ now = 1
    /\ \E held \in BOOLEAN :
          agents = [n \in Callers \cup {Bystander} |->
                      IF n = Bystander /\ held
                      THEN [NewAgentRegistration(n, "model", "program") EXCEPT
                              !.ClaimedWork =
                                 <<NewWorkClaim("b1", n, ClaimReasonImplementing)>>]
                      ELSE NewAgentRegistration(n, "model", "program")]
    /\ dir = NoFiles
    /\ inodes = NoInodes
    /\ last = Ret("Register", Bystander, "", "ok", "", NoArg)
    /\ pc = [n \in Callers |-> NotCalling]
    /\ mu = NoOne
    /\ savers = EmptyMap
    /\ got = NoGot

NextRace ==
    \/ Tick
    \/ DoClaimStart
    \/ DoClaimLock
    \/ DoClaimScan
    \/ DoClaimInsert
    \/ DoClaimUnlock

SpecRace == InitRace /\ [][NextRace]_vars

----------------------------------------------------------------------------
\* The getters and what a caller does with the record it was given.  A getter
\* returns &copy where copy := *agent: the fields are copied, the two slices
\* keep pointing at the arrays of the store's record.

Copy(n) ==
    [live |-> TRUE, from |-> n, rec |-> agents[n],
     sharesClaims |-> agents[n].ClaimedWork # <<>>,
     sharesHints |-> agents[n].FileHints # <<>>]

\* the caller keeps one of the records the getter found, or nil
Returned(op, found) ==
    /\ CanRLock
    /\ IF found = {}
       THEN /\ got' = NoGot
            /\ last' = Ret(op, "", "", "nil", "", NoArg)
       ELSE \E n \in found :
               /\ got' = Copy(n)
               /\ last' = Ret(op, n, "", "ok", "", NoArg)
    /\ UNCHANGED <<now, agents, dir, inodes, pc, mu, savers>>

Get(name) == Returned("Get", {name} \cap DOMAIN agents)

List == Returned("List", DOMAIN agents)

ActiveAgents(timeout) ==
    Returned("ActiveAgents", {n \in DOMAIN agents : IsActive(agents[n], timeout)})

\* GetClaimHolder: the agents the loop may return, one of them the first
\* the map iteration meets
ClaimHolders(beadID) ==
    {n \in DOMAIN agents :
        \E c \in Range(agents[n].ClaimedWork) :
            c.BeadID = beadID /\ ~IsExpired(c, now)}

GetClaimHolder(beadID) == Returned("GetClaimHolder", ClaimHolders(beadID))

\* a GetAllClaims that returns every claim, expired or not
GetAllClaimsUnfiltered ==
    UNION {Range(agents[n].ClaimedWork) : n \in DOMAIN agents}

\* GetAllClaims: the claims of the slice it returns
GetAllClaims ==
    UNION {{c \in Range(agents[n].ClaimedWork) : ~IsExpired(c, now)} :
              n \in DOMAIN agents}

\* the caller assigns a field of the record it holds
WriteField ==
    /\ got.live
    /\ got.rec.Status # AgentStatusIdle
    /\ got' = [got EXCEPT !.rec.Status = AgentStatusIdle]
    /\ last' = Ret("CallerWrite", got.from, "", "ok", "", "Status")
    /\ UNCHANGED <<now, agents, dir, inodes, pc, mu, savers>>

\* the caller assigns rec.ClaimedWork[i].BeadID: the element lives in the
\* array the store's record points at for as long as the two share it
WriteClaim(i) ==
    /\ got.live
    /\ i \in DOMAIN got.rec.ClaimedWork
    /\ got.rec.ClaimedWork[i].BeadID # "b2"
    /\ got' = [got EXCEPT !.rec.ClaimedWork[i].BeadID = "b2"]
    /\ agents' = IF got.sharesClaims
                 THEN [agents EXCEPT ![got.from].ClaimedWork[i].BeadID = "b2"]
                 ELSE agents
    /\ last' = Ret("CallerWrite", got.from, "", "ok", "", "ClaimedWork")
    /\ UNCHANGED <<now, dir, inodes, pc, mu, savers>>

\* the caller assigns rec.FileHints[i].Pattern
WriteHint(i) ==
    /\ got.live
    /\ i \in DOMAIN got.rec.FileHints
    /\ got.rec.FileHints[i].Pattern # "other.go"
    /\ got' = [got EXCEPT !.rec.FileHints[i].Pattern = "other.go"]
    /\ agents' = IF got.sharesHints
                 THEN [agents EXCEPT ![got.from].FileHints[i].Pattern = "other.go"]
                 ELSE agents
    /\ last' = Ret("CallerWrite", got.from, "", "ok", "", "FileHints")
    /\ UNCHANGED <<now, dir, inodes, pc, mu, savers>>

\* one agent is enough to show what a returned record shares
OneName == {"a1"}

DoGet == \E n \in OneName : Get(n)
DoActiveAgents == ActiveAgents(DefaultInactivityThreshold)
DoGetClaimHolder == \E b \in OneBead : GetClaimHolder(b)
DoWriteClaim == \E i \in 1..2 : WriteClaim(i)
DoWriteHint == \E i \in 1..MaxHints : WriteHint(i)

NextAlias ==
    \/ Tick
    \/ DoRegisterNew(OneName)
    \/ DoClaimNew(OneName, OneBead)
    \/ DoRelease(OneName, OneBead)
    \/ DoAddFileHint(OneName)
    \/ DoRemoveFileHint(OneName)
    \/ CleanupExpired
    \/ DoGet
    \/ List
    \/ DoActiveAgents
    \/ DoGetClaimHolder
    \/ WriteField
    \/ DoWriteClaim
    \/ DoWriteHint

SpecAlias == Init /\ [][NextAlias]_vars

----------------------------------------------------------------------------
\* File hints and GetFileConflicts.  The two maps of GetFileConflicts hold,
\* for each pattern, the names and the bead ids in the order the agents and
\* their hints were visited.

HintPatterns == {"main.go", "util.go"}

\* the unexpired hints of agent a on pattern p
LiveHints(a, p) ==
    SelectSeq(a.FileHints, LAMBDA h : h.Pattern = p /\ ~IsExpired(h, now))

\* fileAgents[p] and fileBeads[p] after visiting the agents in order o
RECURSIVE FileAgents(_, _)
FileAgents(o, p) ==
    IF o = <<>> THEN <<>>
    ELSE LET a == agents[Head(o)]
             mine == IF IsActive(a, DefaultInactivityThreshold)
                     THEN [i \in DOMAIN LiveHints(a, p) |-> a.Name]
                     ELSE <<>>
         IN mine \o FileAgents(Tail(o), p)

RECURSIVE FileBeads(_, _)
FileBeads(o, p) ==
    IF o = <<>> THEN <<>>
    ELSE LET a == agents[Head(o)]
             live == SelectSeq(LiveHints(a, p), LAMBDA h : h.BeadID # "")
             mine == IF IsActive(a, DefaultInactivityThreshold)
                     THEN [i \in DOMAIN live |-> live[i].BeadID]
                     ELSE <<>>
         IN mine \o FileBeads(Tail(o), p)

\* the conflicts returned when the agents are visited in order o
FileConflicts(o) ==
    {[File |-> p, Agents |-> FileAgents(o, p), BeadIDs |-> FileBeads(o, p)] :
        p \in {q \in HintPatterns : Len(FileAgents(o, q)) > 1}}

GetFileConflicts ==
    /\ CanRLock
    /\ \E o \in Orders(DOMAIN agents) :
          last' = Ret("GetFileConflicts", "", "", "ok", "", FileConflicts(o))
    /\ UNCHANGED <<now, agents, dir, inodes, pc, mu, savers, got>>

DoAddHint(N) ==
    \E n \in N : \E p \in HintPatterns : \E b \in {"", "b1"} :
        /\ n \in DOMAIN agents => Len(agents[n].FileHints) < MaxAgentHints
        /\ AddFileHint(n, NewFileHint(p, n, b))

NextHints ==
    \/ Tick
    \/ DoRegisterNew(Names)
    \/ DoHeartbeat(Names)
    \/ DoAddHint(Names)
    \/ DoRemoveFileHint(Names)
    \/ GetFileConflicts

SpecHints == Init /\ [][NextHints]_vars

----------------------------------------------------------------------------
\* The cleanup sweep: agents that go idle for up to MaxSweepTime - 1 units,
\* with claims and hints that expire on the way

TickSweep == Advance(MaxSweepTime)

NextSweep ==
    \/ TickSweep
    \/ DoRegisterNew(Names)
    \/ DoHeartbeat(Names)
    \/ DoClaimNew(Names, OneBead)
    \/ DoAddFileHint(Names)
    \/ CleanupExpired

SpecSweep == Init /\ [][NextSweep]_vars

\* The sweep of one agent's lists: a default lease on b1, a long lease on b2
\* and up to MaxAgentHints hints, taken at different times
ClaimsLong(N) ==
    \E n \in N :
        LET c == NewWorkClaim("b2", n, ClaimReasonImplementing)
        IN Claim(n, [c EXCEPT !.ExpiresAt = now + DefaultStaleThreshold + 1])

NextExpire ==
    \/ TickSweep
    \/ DoRegisterNew(OneName)
    \/ DoClaimNew(OneName, OneBead)
    \/ ClaimsLong(OneName)
    \/ DoAddHint(OneName)
    \/ CleanupExpired

SpecExpire == Init /\ [][NextExpire]_vars

----------------------------------------------------------------------------
\* Agent status: Register called with records of every status

RegStatusInputs(N) ==
    {[NewAgentRegistration(n, "model", "program") EXCEPT !.Status = st] :
        n \in N,
        st \in {AgentStatusActive, AgentStatusIdle, AgentStatusInactive, AgentStatusGone}}

DoRegisterStatus(N) == \E reg \in RegStatusInputs(N) : Register(reg)

NextStatus ==
    \/ Tick
    \/ DoRegisterStatus(Names)
    \/ DoHeartbeat(Names)
    \/ DoClaimNew(Names, OneBead)
    \/ DoRelease(Names, OneBead)
    \/ CleanupExpired

SpecStatus == Init /\ [][NextStatus]_vars

\* The life of a registration: every operation that could end it, with the
\* clock running past the stale threshold; the directory holds no snapshot or
\* one that holds the record of a1
InitLife ==
    /\ now = 1
    /\ agents = EmptyMap
    /\ \E present \in BOOLEAN :
          /\ dir = [canon |-> IF present THEN 1 ELSE 0, tmp |-> 0]
          /\ inodes = [i \in 1..MaxInodes |->
                         IF i = 1 /\ present
                         THEN <<EncodedLine(NewAgentRegistration("a1", "model", "program"))>>
                         ELSE <<>>]
    /\ last = Ret("NewStore", "", "", "ok", "", NoArg)
    /\ pc = EmptyMap
    /\ mu = NoOne
    /\ savers = EmptyMap
    /\ got = NoGot

NextLife ==
    \/ TickSweep
    \/ DoRegisterNew(Names)
    \/ DoUnregister(Names)
    \/ DoHeartbeat(Names)
    \/ DoClaimNew(Names, OneBead)
    \/ DoRelease(Names, OneBead)
    \/ CleanupExpired
    \/ Load

SpecLife == InitLife /\ [][NextLife]_vars

\* The life of a lease: every operation that can take a claim out of a list,
\* called with well-formed arguments; a record built by a struct literal
\* leaves its lists nil
DoRegisterNil(N) ==
    \E n \in N :
        Register([NewAgentRegistration(n, "model", "program") EXCEPT
                    !.NilClaims = TRUE, !.NilHints = TRUE])

NextKept ==
    \/ Tick
    \/ DoRegisterNew(Names)
    \/ DoRegisterNil(Names)
    \/ DoUnregister(Names)
    \/ DoHeartbeat(Names)
    \/ DoClaimNew(Names, OneBead)
    \/ DoRelease(Names, OneBead)
    \/ CleanupExpired
    \/ Load

SpecKept == InitLife /\ [][NextKept]_vars

----------------------------------------------------------------------------
\* Claim and Release: two agents, two work items

NextRelease ==
    \/ Tick
    \/ DoRegisterNew(Names)
    \/ DoClaimNew(Names, Beads)
    \/ DoRelease(Names, Beads)

SpecRelease == Init /\ [][NextRelease]_vars

----------------------------------------------------------------------------
\* Calls that name an agent: every operation that takes an agent name, called
\* for a name that may be registered and for one that never is, Claim with
\* well-formed and with malformed claims

NextNamed ==
    \/ Tick
    \/ DoRegisterNew(OneName)
    \/ DoUnregister(Names)
    \/ DoHeartbeat(Names)
    \/ DoClaim(Names, OneBead)
    \/ DoRelease(Names, OneBead)
    \/ DoAddFileHint(Names)
    \/ DoRemoveFileHint(Names)

SpecNamed == Init /\ [][NextNamed]_vars

----------------------------------------------------------------------------
\* Register and Get: records built now or earlier, valid and invalid, for a
\* name that is new and for one that is registered

\* the records of RegInputs, built by the caller at an earlier time or now
RegEarlier(N) ==
    {[r EXCEPT !.StartedAt = t, !.LastSeen = t] : r \in RegInputs(N), t \in 1..now}

DoRegisterEarlier(N) == \E reg \in RegEarlier(N) : Register(reg)
DoGetNamed(N) == \E n \in N : Get(n)

NextReg ==
    \/ Tick
    \/ DoRegisterEarlier(OneName)
    \/ DoClaimNew(OneName, OneBead)
    \/ DoAddFileHint(OneName)
    \/ DoGetNamed(OneName)

SpecReg == Init /\ [][NextReg]_vars

----------------------------------------------------------------------------
\* Heartbeat: agents of every status, one of them with a claim and a hint

NextBeat ==
    \/ Tick
    \/ DoRegisterStatus(Names)
    \/ DoHeartbeat(Names)
    \/ DoClaimNew(OneName, OneBead)
    \/ DoAddFileHint(OneName)

SpecBeat == Init /\ [][NextBeat]_vars

----------------------------------------------------------------------------
\* Concurrent calls, statement by statement.  Two callers each make one call
\* of a mutating operation while a Save runs: s.mu.Lock(), the reads of the
\* body (the lookup, the scans, the lists it builds), its writes, and the
\* deferred s.mu.Unlock().

Procs == {"p1", "p2"}

\* the calls the callers make, as [op, name]; every call passes its
\* validation before it asks for the lock
CallOps == {"Register", "Unregister", "Heartbeat", "Release", "AddFileHint",
            "RemoveFileHint", "CleanupExpired", "Load"}
CallOf(op, n) == [op |-> op, name |-> n]
NoCall == CallOf("", "")

Result(err, ag) == [err |-> err, holder |-> "", agents |-> ag]
NoResult == Result("", EmptyMap)

\* what the body of a call makes of the registry it finds: the error it
\* returns and the registry it leaves
Effect(c) ==
    LET n == c.name
        known == n \in DOMAIN agents
    IN CASE c.op = "Register" ->
              {Result("ok", Put(agents, n,
                                Merged(NewAgentRegistration(n, "model", "program"))))}
         [] c.op = "Unregister" ->
              {IF known THEN Result("ok", Del(agents, n)) ELSE Result("notfound", agents)}
         [] c.op = "Heartbeat" ->
              {IF known
               THEN Result("ok", [agents EXCEPT ![n].LastSeen = now,
                                                ![n].Status = AgentStatusActive])
               ELSE Result("notfound", agents)}
         [] c.op = "Claim" ->
              ClaimOutcomes(n, NewWorkClaim("b1", n, ClaimReasonImplementing))
         [] c.op = "Release" ->
              {IF known /\ \E x \in Range(agents[n].ClaimedWork) : x.BeadID = "b1"
               THEN LET newClaims == SelectSeq(agents[n].ClaimedWork,
                                               LAMBDA x : x.BeadID # "b1")
                    IN Result("ok", [agents EXCEPT
                                       ![n].ClaimedWork = newClaims,
                                       ![n].NilClaims = (newClaims = <<>>),
                                       ![n].LastSeen = now])
               ELSE Result("notfound", agents)}
         [] c.op = "AddFileHint" ->
              {IF known
               THEN Result("ok", [agents EXCEPT
                                    ![n].FileHints =
                                        Append(@, NewFileHint("main.go", n, "b1")),
                                    ![n].NilHints = FALSE,
                                    ![n].LastSeen = now])
               ELSE Result("notfound", agents)}
         [] c.op = "RemoveFileHint" ->
              {IF known
               THEN LET newHints == SelectSeq(agents[n].FileHints,
                                              LAMBDA h : h.Pattern # "main.go")
                    IN Result("ok", [agents EXCEPT
                                       ![n].FileHints = newHints,
                                       ![n].NilHints = (newHints = <<>>),
                                       ![n].LastSeen = now])
               ELSE Result("notfound", agents)}
         [] c.op = "CleanupExpired" ->
              {Result("ok", [m \in DOMAIN agents |-> Swept(agents[m])])}
         [] c.op = "Load" ->
              LET r == LoadResult(dir, inodes) IN {Result(r.err, r.agents)}

Calling(p) == Ret("Calling", p, "", "", "", NoArg)
NotCalled == [at |-> "idle", call |-> NoCall, seen |-> EmptyMap, out |-> NoResult]

\* the caller picks its call
CallStart(p) ==
    /\ pc[p].at = "idle"
    /\ \E c \in {CallOf(op, "a1") : op \in CallOps} \cup {CallOf("Claim", n) : n \in Names} :
          pc' = [pc EXCEPT ![p].at = "lock", ![p].call = c]
    /\ last' = Calling(p)
    /\ UNCHANGED <<now, agents, dir, inodes, mu, savers, got>>

\* s.mu.Lock(); seen is the registry as the lock was taken
CallLock(p) ==
    /\ pc[p].at = "lock"
    /\ CanLock
    /\ mu' = p
    /\ pc' = [pc EXCEPT ![p].at = "body", ![p].seen = agents]
    /\ last' = Calling(p)
    /\ UNCHANGED <<now, agents, dir, inodes, savers, got>>

\* the reads of the body
CallRead(p) ==
    /\ pc[p].at = "body"
    /\ \E o \in Effect(pc[p].call) :
          pc' = [pc EXCEPT ![p].at = "write", ![p].out = o]
    /\ last' = Calling(p)
    /\ UNCHANGED <<now, agents, dir, inodes, mu, savers, got>>

\* the writes of the body
CallWrite(p) ==
    /\ pc[p].at = "write"
    /\ agents' = pc[p].out.agents
    /\ pc' = [pc EXCEPT ![p].at = "unlock"]
    /\ last' = Calling(p)
    /\ got' = [got EXCEPT !.sharesClaims = FALSE, !.sharesHints = FALSE]
    /\ UNCHANGED <<now, dir, inodes, mu, savers>>

\* a return that unlocks only when the call succeeded
CallUnlockOnSuccess(p) ==
    /\ pc[p].at = "unlock"
    /\ mu' = IF pc[p].out.err = "ok" THEN NoOne ELSE mu
    /\ pc' = [pc EXCEPT ![p].at = "done", ![p].seen = EmptyMap,
                        ![p].out.agents = EmptyMap]
    /\ last' = Ret(pc[p].call.op, pc[p].call.name, "", pc[p].out.err,
                   pc[p].out.holder, NoArg)
    /\ UNCHANGED <<now, agents, dir, inodes, savers, got>>

\* the deferred s.mu.Unlock(), and the return
CallUnlock(p) ==
    /\ pc[p].at = "unlock"
    /\ mu' = NoOne
    /\ pc' = [pc EXCEPT ![p].at = "done", ![p].seen = EmptyMap,
                        ![p].out.agents = EmptyMap]
    /\ last' = Ret(pc[p].call.op, pc[p].call.name, "", pc[p].out.err,
                   pc[p].out.holder, NoArg)
    /\ UNCHANGED <<now, agents, dir, inodes, savers, got>>

DoCallStart == \E p \in Procs : CallStart(p)
DoCallLock == \E p \in Procs : CallLock(p)
DoCallRead == \E p \in Procs : CallRead(p)
DoCallWrite == \E p \in Procs : CallWrite(p)
DoCallUnlock == \E p \in Procs : CallUnlock(p)

\* a1 holds a claim and a hint taken at time 1, a2 holds nothing; the calls
\* are made at time t
InitCallsAt(t) ==
    /\ now = t
    /\ agents = [n \in Names |->
                   [NewAgentRegistration(n, "model", "program") EXCEPT
                      !.StartedAt = 1,
                      !.LastSeen = 1,
                      !.ClaimedWork = IF n = "a1"
                                      THEN <<[BeadID |-> "b1", Agent |-> n, ClaimedAt |-> 1,
                                              ExpiresAt |-> 1 + DefaultClaimExpiry,
                                              Reason |-> ClaimReasonImplementing]>>
                                      ELSE <<>>,
                      !.FileHints = IF n = "a1"
                                    THEN <<[Pattern |-> "main.go", Agent |-> n,
                                            BeadID |-> "b1", CreatedAt |-> 1,
                                            ExpiresAt |-> 1 + DefaultFileHintExpiry]>>
                                    ELSE <<>>]]
    /\ dir = NoFiles
    /\ inodes = NoInodes
    /\ last = Ret("Register", "a2", "", "ok", "", NoArg)
    /\ pc = [p \in Procs |-> NotCalled]
    /\ mu = NoOne
    /\ savers = [s \in {"s1"} |-> Idle]
    /\ got = NoGot

InitCalls == \E t \in 1..MaxTime : InitCallsAt(t)

NextCalls ==
    \/ DoCallStart
    \/ DoCallLock
    \/ DoCallRead
    \/ DoCallWrite
    \/ DoCallUnlock
    \/ DoSaveStart
    \/ DoSaveCreate
    \/ DoSaveCreateFail
    \/ DoSaveEncode
    \/ DoSaveEncodeFail
    \/ DoSaveClose
    \/ DoSaveCloseFail
    \/ DoSaveRename
    \/ DoSaveRenameFail

SpecCalls == InitCalls /\ [][NextCalls]_vars

\* The same calls under a fair lock: a caller that keeps finding the lock
\* free at times gets it, and a call that holds the lock takes its next step
SaveRuns ==
    \/ DoSaveCreate
    \/ DoSaveCreateFail
    \/ DoSaveEncode
    \/ DoSaveEncodeFail
    \/ DoSaveClose
    \/ DoSaveCloseFail
    \/ DoSaveRename
    \/ DoSaveRenameFail

FairCalls ==
    /\ \A p \in Procs : SF_vars(CallLock(p))
    /\ \A p \in Procs : WF_vars(CallRead(p) \/ CallWrite(p) \/ CallUnlock(p))
    /\ WF_vars(SaveRuns)

SpecCallsFair == InitCallsAt(1) /\ [][NextCalls]_vars /\ FairCalls

----------------------------------------------------------------------------
\* The read operations, on a registry of two agents, one with a claim and a
\* hint that expire, kept alive by heartbeats and swept now and then

\* formatDuration of a duration of d units of 30 minutes, as <<count, unit>>
formatDuration(d) ==
    LET mins == 30 * d
        hours == mins \div 60
        days == hours \div 24
    IN IF mins < 1 THEN <<0, "just now">>
       ELSE IF mins < 60
       THEN IF mins = 1 THEN <<1, "minute ago">> ELSE <<mins, "minutes ago">>
       ELSE IF hours < 24
       THEN IF hours = 1 THEN <<1, "hour ago">> ELSE <<hours, "hours ago">>
       ELSE IF days = 1 THEN <<1, "day ago">> ELSE <<days, "days ago">>

\* the AgentSummary of one agent
SummaryOf(a) ==
    LET activeClaims == ActiveClaims(a, now)
    IN [Name |-> a.Name, Program |-> a.Program, Status |-> a.Status,
        ClaimCount |-> Len(activeClaims),
        ActiveClaims |-> [i \in DOMAIN activeClaims |-> activeClaims[i].BeadID],
        LastSeen |-> a.LastSeen,
        LastSeenAgo |-> formatDuration(now - a.LastSeen)]

\* a Summary that drops the expired claims it skips
SummaryPrunes ==
    /\ CanRLock
    /\ \E o \in Orders(DOMAIN agents) :
          last' = Ret("Summary", "", "", "ok", "",
                      [i \in DOMAIN o |-> SummaryOf(agents[o[i]])])
    /\ agents' = [n \in DOMAIN agents |->
                    [agents[n] EXCEPT !.ClaimedWork = ActiveClaims(agents[n], now)]]
    /\ UNCHANGED <<now, dir, inodes, pc, mu, savers, got>>

\* Summary: one record for each agent, in the order of the map iteration
Summary ==
    /\ CanRLock
    /\ \E o \in Orders(DOMAIN agents) :
          last' = Ret("Summary", "", "", "ok", "",
                      [i \in DOMAIN o |-> SummaryOf(agents[o[i]])])
    /\ UNCHANGED <<now, agents, dir, inodes, pc, mu, savers, got>>

\* the call of GetAllClaims
CallGetAllClaims ==
    /\ CanRLock
    /\ last' = Ret("GetAllClaims", "", "", "ok", "", GetAllClaims)
    /\ UNCHANGED <<now, agents, dir, inodes, pc, mu, savers, got>>

NextRead ==
    \/ Tick
    \/ DoHeartbeat(OneName)
    \/ CleanupExpired
    \/ DoGet
    \/ List
    \/ DoActiveAgents
    \/ DoGetClaimHolder
    \/ CallGetAllClaims
    \/ GetFileConflicts
    \/ Summary
    \/ DoSaveStart
    \/ DoSaveCreate
    \/ DoSaveEncode
    \/ DoSaveClose
    \/ DoSaveRename

SpecRead == InitCallsAt(1) /\ [][NextRead]_vars

----------------------------------------------------------------------------
\* Hints on one pattern: two agents that each add up to MaxAgentHints hints
\* on the same file, one of them holding a claim

DoAddSameHint(N) ==
    \E n \in N :
        /\ n \in DOMAIN agents => Len(agents[n].FileHints) < MaxAgentHints
        /\ AddFileHint(n, NewFileHint("main.go", n, ""))

NextShare ==
    \/ Tick
    \/ DoRegisterNew(Names)
    \/ DoClaimNew(OneName, OneBead)
    \/ DoAddSameHint(Names)

SpecShare == Init /\ [][NextShare]_vars

----------------------------------------------------------------------------
\* The claims Claim accepts: well-formed ones, the malformed ones of
\* ClaimInputs, and one whose lease ends before it starts

ClaimBackwards(agentName) ==
    LET c == NewWorkClaim("b1", agentName, ClaimReasonImplementing)
    IN [c EXCEPT !.ExpiresAt = c.ClaimedAt - 1]

DoClaimBackwards(N) == \E n \in N : Claim(n, ClaimBackwards(n))

NextAccept ==
    \/ Tick
    \/ DoRegisterNew(OneName)
    \/ DoClaim(OneName, OneBead)
    \/ DoClaimBackwards(OneName)

SpecAccept == Init /\ [][NextAccept]_vars

----------------------------------------------------------------------------
\* Load of well-formed snapshot files: every line a JSON object of an agent
\* record, some with an empty name, an empty program or an unknown status

RecordLines ==
    LET base(n) == NewAgentRegistration(n, "model", "program")
    IN {EncodedLine(r) : r \in {base("a1"), base("a2"),
                                [base("a1") EXCEPT !.Program = ""],
                                [base("a2") EXCEPT !.Status = "bogus"],
                                [base("") EXCEPT !.Program = ""]}}

RecordFiles == UNION {[1..k -> RecordLines] : k \in 0..MaxLines}

InitRecords ==
    /\ now = 1
    /\ agents = EmptyMap
    /\ \E present \in BOOLEAN : dir = [canon |-> IF present THEN 1 ELSE 0, tmp |-> 0]
    /\ \E f \in RecordFiles :
          inodes = [i \in 1..MaxInodes |-> IF i = 1 /\ dir[CanonPath] = 1 THEN f ELSE <<>>]
    /\ last = Ret("NewStore", "", "", "ok", "", NoArg)
    /\ pc = EmptyMap
    /\ mu = NoOne
    /\ savers = EmptyMap
    /\ got = NoGot

NextRecords ==
    \/ Tick
    \/ DoRegister(OneName)
    \/ DoHeartbeat(Names)
    \/ Load

SpecRecords == InitRecords /\ [][NextRecords]_vars

----------------------------------------------------------------------------
\* Renewal: one agent claims and claims again two work items, for one reason
\* or another, while a second agent claims one of them

DoRenew(N) ==
    \E n \in N : \E b \in Beads :
        \E r \in {ClaimReasonImplementing, ClaimReasonReviewing} :
            Claim(n, NewWorkClaim(b, n, r))

NextRenew ==
    \/ Tick
    \/ DoRegisterNew(Names)
    \/ DoRenew(OneName)
    \/ DoClaimNew(Names \ OneName, OneBead)

SpecRenew == Init /\ [][NextRenew]_vars

----------------------------------------------------------------------------
\* The record passed to Register.  s.agents[agent.Name] = agent stores the
\* caller's pointer, so right after Register returns the caller's reg and the
\* store's record are one object; the caller writes to it without the lock.

RegFields == {"Status", "LastSeen", "ClaimedWork"}

\* the caller assigns reg.Status, reg.LastSeen or reg.ClaimedWork
WriteReg(f) ==
    /\ last.op = "Register"
    /\ last.err = "ok"
    /\ last.name \in DOMAIN agents
    /\ agents' =
          CASE f = "Status" -> [agents EXCEPT ![last.name].Status = AgentStatusGone]
            [] f = "LastSeen" -> [agents EXCEPT ![last.name].LastSeen = ZeroTime]
            [] f = "ClaimedWork" ->
                 [agents EXCEPT
                    ![last.name].ClaimedWork =
                        <<NewWorkClaim("b1", last.name, ClaimReasonImplementing)>>,
                    ![last.name].NilClaims = FALSE]
    /\ last' = Ret("CallerWrite", last.name, "", "ok", "", f)
    /\ got' = IF f = "ClaimedWork" THEN Detach(last.name, FALSE, TRUE) ELSE got
    /\ UNCHANGED <<now, dir, inodes, pc, mu, savers>>

DoWriteReg == \E f \in RegFields : WriteReg(f)

NextKeep ==
    \/ Tick
    \/ DoRegisterNew(Names)
    \/ DoClaimNew(Names, OneBead)
    \/ DoWriteReg

SpecKeep == Init /\ [][NextKeep]_vars

----------------------------------------------------------------------------
\* Two registered agents, one with a claim and a hint from the start, each
\* calling the operations that name an agent

NextOthers ==
    \/ Tick
    \/ DoHeartbeat(Names)
    \/ DoClaimNew(Names, OneBead)
    \/ DoRelease(Names, OneBead)
    \/ DoAddFileHint(Names)
    \/ DoRemoveFileHint(Names)

SpecOthers == InitCallsAt(1) /\ [][NextOthers]_vars

----------------------------------------------------------------------------
\* Claim called for one agent with a claim whose Agent field names any agent

DoClaimAs(N) ==
    \E n \in N : \E who \in Names :
        Claim(n, NewWorkClaim("b1", who, ClaimReasonImplementing))

NextHolder ==
    \/ Tick
    \/ DoRegisterNew(Names)
    \/ DoClaimAs(Names)
    \/ DoRelease(Names, OneBead)

SpecHolder == Init /\ [][NextHolder]_vars

----------------------------------------------------------------------------
\* The life of a lease's expiry time: a1 holds a lease on b1 taken at the
\* start, and the directory holds a snapshot in which that lease runs longer;
\* every operation that writes to a record is called

HolderRecord(n, until) ==
    [NewAgentRegistration(n, "model", "program") EXCEPT
       !.StartedAt = 1,
       !.LastSeen = 1,
       !.ClaimedWork = IF n = "a1"
                       THEN <<[BeadID |-> "b1", Agent |-> n, ClaimedAt |-> 1,
                               ExpiresAt |-> until,
                               Reason |-> ClaimReasonImplementing]>>
                       ELSE <<>>]

InitLease ==
    /\ now = 1
    /\ agents = [n \in Names |-> HolderRecord(n, 1 + DefaultClaimExpiry)]
    /\ dir = [canon |-> 1, tmp |-> 0]
    /\ inodes = [i \in 1..MaxInodes |->
                   IF i = 1
                   THEN <<EncodedLine(HolderRecord("a1", 1 + 2 * DefaultClaimExpiry)),
                          EncodedLine(HolderRecord("a2", 1 + 2 * DefaultClaimExpiry))>>
                   ELSE <<>>]
    /\ last = Ret("NewStore", "", "", "ok", "", NoArg)
    /\ pc = EmptyMap
    /\ mu = NoOne
    /\ savers = EmptyMap
    /\ got = NoGot

\* Register of a record that carries a fresh claim on b1
DoRegisterLease(N) ==
    \E n \in N :
        Register([NewAgentRegistration(n, "model", "program") EXCEPT
                    !.ClaimedWork = <<NewWorkClaim("b1", n, ClaimReasonImplementing)>>])

\* the errors a Claim by m on b may return now
ClaimErrs(m, b) ==
    {o.err : o \in ClaimOutcomes(m, NewWorkClaim(b, m, ClaimReasonImplementing))}

NextLease ==
    \/ Tick
    \/ DoHeartbeat(OneName)
    \/ DoClaimNew(OneName, Beads)
    \/ DoClaimNew(Names \ OneName, OneBead)
    \/ DoRelease(OneName, Beads)
    \/ DoAddFileHint(OneName)
    \/ DoRemoveFileHint(OneName)
    \/ CleanupExpired
    \/ DoRegisterLease(OneName)
    \/ Load

SpecLease == InitLease /\ [][NextLease]_vars

----------------------------------------------------------------------------
\* Saving after a crash: the process dies inside a Save, and a new process
\* opens a store on the same directory, registers agents and saves.  The
\* position of the dead process keeps what it left at the temporary path.

Abandoned ==
    [at |-> "crashed",
     left |-> dir[TmpPath] # 0,
     lines |-> IF dir[TmpPath] # 0 THEN inodes[dir[TmpPath]] ELSE <<>>]

\* NewStore in a new process
Restart ==
    /\ ~Alive
    /\ agents' = EmptyMap
    /\ savers' = [s \in DOMAIN savers |-> Idle]
    /\ mu' = NoOne
    /\ got' = NoGot
    /\ pc' = Put(pc, "dead", Abandoned)
    /\ last' = Ret("NewStore", "", "", "ok", "", NoArg)
    /\ UNCHANGED <<now, dir, inodes>>

NextRestart ==
    \/ DoRegisterNew(Names)
    \/ DoUnregister(Names)
    \/ Load
    \/ DoSaveStart
    \/ DoSaveCreate
    \/ DoSaveEncode
    \/ DoSaveClose
    \/ DoSaveRename
    \/ Crash
    \/ Restart

SpecRestart == InitSave /\ [][NextRestart]_vars

----------------------------------------------------------------------------
\* Properties of the lease core

\* the claims on bead b in the registry that have not expired, as <<holder, index>>
UnexpiredClaimsOn(b) ==
    {x \in UNION {{<<n, i>> : i \in DOMAIN agents[n].ClaimedWork} : n \in DOMAIN agents} :
        /\ agents[x[1]].ClaimedWork[x[2]].BeadID = b
        /\ now <= agents[x[1]].ClaimedWork[x[2]].ExpiresAt}

\* the claims on bead b that agents other than a hold, expired or not
ClaimsOfOthers(a, b) ==
    {c \in UNION {Range(agents[n].ClaimedWork) : n \in DOMAIN agents \ {a}} :
        c.BeadID = b}

\* C1: in every reachable state every work item has at most one unexpired
\* claim across all the claim lists of the registry.
C1_AtMostOneUnexpiredClaim ==
    \A b \in Beads : Cardinality(UnexpiredClaimsOn(b)) <= 1

\* the callers whose Claim returned nil, and the critical section
Winners == {n \in DOMAIN pc : pc[n].at = "done" /\ pc[n].err = "ok"}
AllDone == \A n \in DOMAIN pc : pc[n].at = "done"
InCritical == {n \in DOMAIN pc : pc[n].at \in {"scan", "insert", "unlock"}}

\* C2: the scan and the insert of a Claim happen inside one exclusive critical
\* section, and when agents call Claim concurrently for a work item that no
\* other agent has a claim on, and the claims that were accepted are still
\* unexpired when the last call returns, exactly one call succeeded and every
\* other call failed with a conflict error naming the winner.
C2_OneWinnerWhileLeaseLasts ==
    /\ Cardinality(InCritical) <= 1
    /\ \A n \in InCritical : mu = n
    /\ (/\ AllDone
        /\ DOMAIN pc # {}
        /\ \A n \in DOMAIN agents \ DOMAIN pc :
              \A c \in Range(agents[n].ClaimedWork) : c.BeadID # "b1"
        /\ \A w \in Winners : now <= pc[w].claim.ExpiresAt) =>
          /\ Cardinality(Winners) = 1
          /\ \A n \in DOMAIN pc \ Winners :
                pc[n].err = "conflict" /\ pc[n].holder \in Winners

C2_Witness ==
    /\ AllDone
    /\ Cardinality(DOMAIN pc) = 3
    /\ Cardinality(Winners) = 1
    /\ \A w \in Winners : now <= pc[w].claim.ExpiresAt
    /\ \A n \in DOMAIN pc \ Winners :
          pc[n].err = "conflict" /\ pc[n].holder \in Winners

\* C2 as stated: whatever the interleaving, exactly one of the concurrent
\* Claim calls succeeds and every other one fails with a conflict error.
C2_ExactlyOneSucceeds ==
    (AllDone /\ DOMAIN pc # {}) =>
        /\ Cardinality(Winners) = 1
        /\ \A n \in DOMAIN pc \ Winners : pc[n].err = "conflict"

\* C3: a Claim by a registered agent with a valid claim fails with a conflict
\* error naming a current holder whenever another agent holds an unexpired
\* claim on the work item, and a Claim that fails so leaves the registry as
\* it was (the holder keeps its claim, the caller's list and last-seen stay).
C3_ConflictRejectsAndKeepsState ==
    [][ (last'.op = "Claim" /\ last'.err \notin {"validation", "notfound"}) =>
          LET holders == {n \in DOMAIN agents \ {last'.name} :
                            \E c \in Range(agents[n].ClaimedWork) :
                                c.BeadID = last'.bead /\ now <= c.ExpiresAt}
          IN /\ holders # {} => (last'.err = "conflict" /\ last'.holder \in holders)
             /\ last'.err = "conflict" => agents' = agents ]_vars

C3_Witness ==
    /\ last.op = "Claim"
    /\ last.err = "conflict"
    /\ last.holder \in DOMAIN agents \ {last.name}
    /\ last.name \in DOMAIN agents
    /\ \E c \in Range(agents[last.holder].ClaimedWork) :
          c.BeadID = last.bead /\ now <= c.ExpiresAt

\* C4: a lease blocks a work item exactly until its expiry: a valid Claim by
\* a registered agent succeeds when every claim the other agents hold on the
\* work item has now > expiresAt (no sweep or release is required), and is
\* rejected with a conflict while some such claim has now <= expiresAt.
C4_ExpiredLeaseDoesNotBlock ==
    [][ (last'.op = "Claim" /\ last'.err \notin {"validation", "notfound"}) =>
          LET theirs == ClaimsOfOthers(last'.name, last'.bead)
          IN /\ (\A c \in theirs : now > c.ExpiresAt) => last'.err = "ok"
             /\ (\E c \in theirs : now <= c.ExpiresAt) => last'.err = "conflict" ]_vars

C4_Witness ==
    /\ last.op = "Claim"
    /\ last.err = "ok"
    /\ \E c \in ClaimsOfOthers(last.name, last.bead) : now > c.ExpiresAt

\* C5: a caller that writes into a record a getter returned (Get, List,
\* ActiveAgents, GetClaimHolder), or into an element of its claim list or
\* hint list, leaves the registry as it was.
C5_ReturnedRecordsIndependent ==
    [][ last'.op = "CallerWrite" => agents' = agents ]_vars

\* C6: re-registering an existing agent with a record that carries no claims
\* and no hints leaves the agent's claim list and hint list as they were.
C6_ReRegisterKeepsLeases ==
    [][ (/\ last'.op = "Register"
         /\ last'.err = "ok"
         /\ last'.name \in DOMAIN agents
         /\ last'.arg.ClaimedWork = <<>>
         /\ last'.arg.FileHints = <<>>) =>
          /\ agents'[last'.name].ClaimedWork = agents[last'.name].ClaimedWork
          /\ agents'[last'.name].FileHints = agents[last'.name].FileHints ]_vars

\* C7: while an agent stays registered, whatever is called (Register again,
\* Heartbeat, Claim, Release, CleanupExpired), its start time does not change.
C7_StartedAtPreserved ==
    [][ \A n \in DOMAIN agents \cap DOMAIN agents' :
          agents'[n].StartedAt = agents[n].StartedAt ]_vars

C7_Witness ==
    /\ last.op = "Register"
    /\ last.err = "ok"
    /\ agents[last.name].StartedAt < last.arg.StartedAt

----------------------------------------------------------------------------
\* Properties of the snapshot

CanonFile ==
    [exists |-> dir[CanonPath] # 0,
     lines |-> IF dir[CanonPath] # 0 THEN inodes[dir[CanonPath]] ELSE <<>>]

\* lines holds one complete record for each agent of reg and nothing else
IsSnapshotOf(lines, reg) ==
    /\ Len(lines) = Cardinality(DOMAIN reg)
    /\ \A n \in DOMAIN reg : \E i \in DOMAIN lines : lines[i] = EncodedLine(reg[n])

\* C8: every step of a Save, a failed step and a crash included, leaves the
\* canonical file untouched or replaces it by one complete snapshot of the
\* registry; a Save that reports a failed write, close or rename leaves no
\* temporary file.
C8_SaveAllOrNothing ==
    [][ /\ \/ CanonFile' = CanonFile
           \/ CanonFile'.exists /\ IsSnapshotOf(CanonFile'.lines, agents)
        /\ (last'.op = "Save" /\ last'.err \in {"encode", "close", "rename"}) =>
              dir'[TmpPath] = 0 ]_vars

C8_Witness ==
    /\ \E s \in DOMAIN savers : savers[s].at = "crashed"
    /\ dir[TmpPath] # 0
    /\ Len(inodes[dir[TmpPath]]) > 0
    /\ Len(inodes[dir[TmpPath]]) < Cardinality(DOMAIN agents)
    /\ dir[CanonPath] # 0
    /\ ~IsSnapshotOf(inodes[dir[CanonPath]], agents)

\* C9: with two Save calls running at once the canonical file, when there is
\* one, is at every moment one complete snapshot of the registry, and a Load
\* finds a file it can read in full.
C9_ConcurrentSaveNeverPartial ==
    /\ dir[CanonPath] # 0 => IsSnapshotOf(inodes[dir[CanonPath]], agents)
    /\ last.op = "Load" => last.err = "ok"

\* C10: after a Save that succeeded, a Load of the directory into a fresh
\* store succeeds and yields the registry that was saved: the same names and
\* for each the same fields, claims and hints.
C10_SaveLoadRoundTrip ==
    (last.op = "Save" /\ last.err = "ok") =>
        LET r == LoadResult(dir, inodes)
        IN r.err = "ok" /\ r.agents = agents

\* C11: a Load that fails on a malformed record leaves the registry as it was
\* or empty, never holding just the records that preceded the bad line.
C11_LoadAllOrNothing ==
    [][ (last'.op = "Load" /\ last'.err = "parse") =>
          (agents' = agents \/ agents' = EmptyMap) ]_vars

\* C12: a Load of a file that holds a line that is neither blank nor a JSON
\* record fails with a parse error naming the number of the first such line,
\* blank lines counted.
C12_ParseErrorNamesLine ==
    [][ (/\ last'.op = "Load"
         /\ \E i \in DOMAIN CanonFile.lines : CanonFile.lines[i].kind = "text") =>
          /\ last'.err = "parse"
          /\ CanonFile.lines[last'.arg.line].kind = "text"
          /\ \A i \in 1..(last'.arg.line - 1) : CanonFile.lines[i].kind # "text" ]_vars

\* C13: a Load when there is no snapshot file succeeds and leaves the registry
\* empty, whatever it held before.
C13_LoadMissingFileEmpties ==
    [][ (last'.op = "Load" /\ ~CanonFile.exists) =>
          (last'.err = "ok" /\ agents' = EmptyMap) ]_vars

C13_Witness ==
    /\ last.op = "Load"
    /\ last.err = "ok"
    /\ ~CanonFile.exists
    /\ last.arg.had # {}
    /\ agents = EmptyMap

\* the active agents holding an unexpired hint on pattern p
ActiveHolders(p) ==
    {n \in DOMAIN agents :
        /\ now - agents[n].LastSeen < DefaultInactivityThreshold
        /\ \E h \in Range(agents[n].FileHints) : h.Pattern = p /\ now <= h.ExpiresAt}

\* C14: GetFileConflicts reports a pattern exactly when two or more distinct
\* active agents hold an unexpired hint on it, and no conflict record lists
\* an agent twice.
C14_ConflictsNeedTwoAgents ==
    [][ last'.op = "GetFileConflicts" =>
          /\ \A p \in HintPatterns :
                (\E c \in last'.arg : c.File = p) <=> Cardinality(ActiveHolders(p)) >= 2
          /\ \A c \in last'.arg :
                \A i, j \in DOMAIN c.Agents : i # j => c.Agents[i] # c.Agents[j] ]_vars

C16_SweepRemovesExactlyExpired ==
    [][ last'.op = "CleanupExpired" =>
          /\ DOMAIN agents' = DOMAIN agents
          /\ \A n \in DOMAIN agents :
                /\ agents'[n].ClaimedWork =
                      SelectSeq(agents[n].ClaimedWork, LAMBDA c : now <= c.ExpiresAt)
                /\ agents'[n].FileHints =
                      SelectSeq(agents[n].FileHints, LAMBDA h : now <= h.ExpiresAt) ]_vars

C16_Witness ==
    /\ last.op = "CleanupExpired"
    /\ last.arg.claims >= 1
    /\ last.arg.hints >= 1
    /\ \E n \in DOMAIN agents :
          /\ agents[n].Status = AgentStatusGone
          /\ Len(agents[n].ClaimedWork) >= 1

\* C17: a claim with now > expiresAt is in no result of ActiveClaims and
\* GetAllClaims and makes no agent the result of GetClaimHolder, which returns
\* an agent for a work item exactly when GetAllClaims holds a claim on it; the
\* expired claim stays in its holder's list, as Get and List return it, over
\* every step but a CleanupExpired, a Load, and the holder's own Release of
\* it, Claim on the same work item, Register with a claim list that is not
\* nil, and Unregister.
C17_ExpiredHiddenButKept ==
    [][ /\ \A c \in GetAllClaims : now <= c.ExpiresAt
        /\ \A n \in DOMAIN agents :
              \A c \in Range(ActiveClaims(agents[n], now)) : now <= c.ExpiresAt
        /\ \A b \in Beads :
              /\ ClaimHolders(b) # {} <=> (\E c \in GetAllClaims : c.BeadID = b)
              /\ \A h \in ClaimHolders(b) :
                    \E c \in Range(agents[h].ClaimedWork) :
                        c.BeadID = b /\ now <= c.ExpiresAt
        /\ \A n \in DOMAIN agents :
              \A c \in Range(agents[n].ClaimedWork) :
                 now > c.ExpiresAt =>
                    \/ n \in DOMAIN agents' /\ c \in Range(agents'[n].ClaimedWork)
                    \/ last'.op \in {"CleanupExpired", "Load"}
                    \/ /\ last'.name = n
                       /\ last'.err = "ok"
                       /\ \/ last'.op \in {"Release", "Claim"} /\ last'.bead = c.BeadID
                          \/ last'.op = "Register" /\ ~last'.arg.NilClaims
                          \/ last'.op = "Unregister" ]_vars

C17_Witness ==
    /\ last.op = "Claim"
    /\ last.err = "ok"
    /\ \E n \in DOMAIN agents \ {last.name} :
          \E c \in Range(agents[n].ClaimedWork) :
             /\ c.BeadID = last.bead
             /\ now > c.ExpiresAt
             /\ c \notin GetAllClaims
             /\ n \notin ClaimHolders(c.BeadID)

\* C17 as stated: the expired claim stays in its holder's list until
\* CleanupExpired runs or the holder releases it.
C17_KeptUntilSweepOrRelease ==
    [][ \A n \in DOMAIN agents :
           \A c \in Range(agents[n].ClaimedWork) :
              now > c.ExpiresAt =>
                 \/ n \in DOMAIN agents' /\ c \in Range(agents'[n].ClaimedWork)
                 \/ last'.op = "CleanupExpired"
                 \/ /\ last'.op = "Release"
                    /\ last'.name = n
                    /\ last'.bead = c.BeadID ]_vars

\* C18: an agent's status becomes Inactive or Gone only in a CleanupExpired
\* step.
C18_InactiveOnlyBySweep ==
    [][ \A n \in DOMAIN agents' :
           (/\ agents'[n].Status \in {AgentStatusInactive, AgentStatusGone}
            /\ n \in DOMAIN agents => agents[n].Status # agents'[n].Status) =>
              last'.op = "CleanupExpired" ]_vars

\* C19: a registered agent leaves the registry only by an Unregister of its
\* name or by a Load, which replaces the whole registry by the records of the
\* file; time, expiry and the sweep remove no agent, a Gone one included.
C19_RemovedOnlyByUnregisterOrLoad ==
    [][ \A n \in DOMAIN agents \ DOMAIN agents' :
           \/ last'.op = "Unregister" /\ last'.name = n /\ last'.err = "ok"
           \/ last'.op = "Load" ]_vars

C19_Witness ==
    /\ last.op = "CleanupExpired"
    /\ last.arg.claims >= 1
    /\ \E n \in DOMAIN agents :
          /\ agents[n].Status = AgentStatusGone
          /\ agents[n].ClaimedWork = <<>>

\* C19 as stated: a registered agent leaves the registry only by an
\* Unregister of its name.
C19_RemovedOnlyByUnregister ==
    [][ \A n \in DOMAIN agents \ DOMAIN agents' :
           last'.op = "Unregister" /\ last'.name = n /\ last'.err = "ok" ]_vars

\* C20: an Unregister of a registered agent removes its record, and with it
\* its claims and hints: Get finds nothing, GetAllClaims holds only claims of
\* the other agents, GetClaimHolder does not return it, a work item that only
\* it was holding can be claimed by any other agent at once, and the records
\* of the other agents are as they were.
C20_UnregisterFreesLeases ==
    [][ (last'.op = "Unregister" /\ last'.err = "ok") =>
          LET gone == last'.name
              others == DOMAIN agents \ {gone}
          IN /\ DOMAIN agents' = others
             /\ \A m \in others : agents'[m] = agents[m]
             /\ GetAllClaims' \subseteq
                   UNION {Range(agents[m].ClaimedWork) : m \in others}
             /\ \A b \in Beads :
                   /\ gone \notin ClaimHolders(b)'
                   /\ \A m \in others :
                         LET c == NewWorkClaim(b, m, ClaimReasonImplementing)
                         IN ConflictHolders(m, c) \subseteq {gone} =>
                               \A o \in ClaimOutcomes(m, c)' : o.err = "ok" ]_vars

C20_Witness ==
    /\ last.op = "Unregister"
    /\ last.err = "ok"
    /\ last.arg >= 1
    /\ DOMAIN agents # {}
    /\ last.name \notin DOMAIN agents
    /\ GetAllClaims = {}

\* the claims of record a on work items other than b, in order
ClaimsNotOn(a, b) == SelectSeq(a.ClaimedWork, LAMBDA c : c.BeadID # b)

\* C21: a successful Release(A, id) leaves A holding no claim on id, leaves
\* A's claims on every other id and the records of the other agents as they
\* were, and leaves A's list empty when it held only the claim on id; when the
\* Release follows a successful Claim(A, id), every other registered agent can
\* then claim id.
C21_ClaimThenReleaseFrees ==
    [][ (last'.op = "Release" /\ last'.err = "ok") =>
          LET A == last'.name
              id == last'.bead
          IN /\ A \in DOMAIN agents'
             /\ \A c \in Range(agents'[A].ClaimedWork) : c.BeadID # id
             /\ ClaimsNotOn(agents'[A], id) = ClaimsNotOn(agents[A], id)
             /\ \A m \in DOMAIN agents \ {A} : agents'[m] = agents[m]
             /\ Len(agents[A].ClaimedWork) = 1 => agents'[A].ClaimedWork = <<>>
             /\ (last.op = "Claim" /\ last.err = "ok" /\ last.name = A /\ last.bead = id) =>
                   /\ agents[A].ClaimedWork = ClaimsNotOn(agents[A], id) \o <<last.arg>>
                   /\ \A m \in DOMAIN agents \ {last.name} :
                         LET c == NewWorkClaim(last.bead, m, ClaimReasonImplementing)
                         IN \A o \in ClaimOutcomes(m, c)' : o.err = "ok" ]_vars

\* a Release that directly followed the Claim, by an agent that keeps a claim
\* on the other work item, with another agent registered
C21_Witness ==
    /\ last.op = "Release"
    /\ last.err = "ok"
    /\ last.name \in DOMAIN agents
    /\ DOMAIN agents # {last.name}
    /\ Len(agents[last.name].ClaimedWork) = 1
    /\ agents[last.name].LastSeen = now
    /\ \E c \in Range(agents[last.name].ClaimedWork) :
          c.BeadID # last.bead /\ c.ClaimedAt < now

\* C22: Release(A, id) fails with a not-found error when A holds no claim on
\* id, whoever else holds one, and a Release that fails changes nothing.
C22_ReleaseOfAbsentClaimFails ==
    [][ last'.op = "Release" =>
          LET A == last'.name
              id == last'.bead
              holds == /\ A \in DOMAIN agents
                       /\ \E c \in Range(agents[A].ClaimedWork) : c.BeadID = id
          IN /\ ~holds => last'.err = "notfound"
             /\ last'.err # "ok" => agents' = agents ]_vars

\* a registered agent tried to release a work item that another agent holds
C22_Witness ==
    /\ last.op = "Release"
    /\ last.err = "notfound"
    /\ last.name \in DOMAIN agents
    /\ \E m \in DOMAIN agents \ {last.name} :
          \E c \in Range(agents[m].ClaimedWork) :
              c.BeadID = last.bead /\ now <= c.ExpiresAt

\* the operations that take the name of a registered agent
NamedOps == {"Unregister", "Heartbeat", "Claim", "Release", "AddFileHint", "RemoveFileHint"}

\* C23: Unregister, Heartbeat, Release, AddFileHint and RemoveFileHint called
\* with a name that is not registered fail with a not-found error, Claim so
\* called fails with a not-found error when its claim is well-formed and with
\* a validation error when it is not, and each such call leaves the whole
\* registry unchanged and creates no agent.
C23_UnknownAgentNotFound ==
    [][ (last'.op \in NamedOps /\ last'.name \notin DOMAIN agents) =>
          /\ last'.err = IF last'.op = "Claim" /\ ClaimValidate(last'.arg) # "ok"
                         THEN "validation" ELSE "notfound"
          /\ agents' = agents ]_vars

\* a call for an unregistered name failed while another agent was registered
C23_Witness ==
    /\ last.op \in NamedOps
    /\ last.err = "notfound"
    /\ last.name \notin DOMAIN agents
    /\ \E m \in DOMAIN agents : agents[m].ClaimedWork # <<>>

\* C23 as stated: each of the six operations called with an unregistered
\* name fails with a not-found error and leaves the registry unchanged.
C23_AlwaysNotFound ==
    [][ (last'.op \in NamedOps /\ last'.name \notin DOMAIN agents) =>
          /\ last'.err = "notfound"
          /\ agents' = agents ]_vars

\* C24: Register of a record with an empty name, an empty program or a status
\* outside {Active, Idle, Inactive, Gone} fails with a validation error and
\* leaves the registry unchanged.
C24_InvalidRegisterRejected ==
    [][ last'.op = "Register" =>
          LET reg == last'.arg
              bad == \/ reg.Name = ""
                     \/ reg.Program = ""
                     \/ reg.Status \notin {"active", "idle", "inactive", "gone"}
          IN /\ bad => (last'.err = "validation" /\ agents' = agents)
             /\ last'.err # "ok" => agents' = agents ]_vars

\* an invalid record was rejected that names an agent already registered
C24_Witness ==
    /\ last.op = "Register"
    /\ last.err = "validation"
    /\ last.arg.Name \in DOMAIN agents
    /\ last.arg.Program = "" \/ last.arg.Status = "bogus"
    /\ agents[last.arg.Name].LastSeen < now

\* C25: a successful Register(reg) stores a record whose name, model, program
\* and status are the ones submitted and whose last-seen is the time of the
\* call; for a name not registered before, started-at and the two lists are
\* the ones submitted too; for a registered name, started-at is that of the
\* existing record and a nil list is replaced by the existing list.  Get
\* returns the fields of the stored record.
C25_RegisterThenGet ==
    [][ /\ (last'.op = "Register" /\ last'.err = "ok") =>
             LET reg == last'.arg
                 n == reg.Name
                 r == agents'[n]
                 old == n \in DOMAIN agents
             IN /\ n \in DOMAIN agents'
                /\ r.Name = reg.Name /\ r.Model = reg.Model
                /\ r.Program = reg.Program /\ r.Status = reg.Status
                /\ r.LastSeen = now
                /\ r.StartedAt = IF old THEN agents[n].StartedAt ELSE reg.StartedAt
                /\ r.ClaimedWork = IF old /\ reg.NilClaims THEN agents[n].ClaimedWork
                                   ELSE reg.ClaimedWork
                /\ r.FileHints = IF old /\ reg.NilHints THEN agents[n].FileHints
                                 ELSE reg.FileHints
        /\ (last'.op = "Get" /\ last'.err = "ok") =>
             got'.rec = agents[last'.name] ]_vars

\* Get returned the record of an agent that had just registered again, later
\* than it first did and with a record built before the call
C25_Witness ==
    /\ last.op = "Get"
    /\ last.err = "ok"
    /\ got.live
    /\ got.rec.StartedAt < got.rec.LastSeen
    /\ got.rec.LastSeen = now
    /\ got.rec.ClaimedWork # <<>>

\* C25 as stated: the record Get returns after a successful Register has
\* every field as submitted except last-seen, the time of the Register call.
C25_AllFieldsAsSubmitted ==
    [][ (/\ last.op = "Register" /\ last.err = "ok"
         /\ last'.op = "Get" /\ last'.name = last.name) =>
          got'.rec = [last.arg EXCEPT !.LastSeen = now] ]_vars

\* C26: Heartbeat(name) on a registered agent sets its last-seen to now and
\* its status to Active whatever the status was, and changes no other field
\* of the agent (its claims and hints included) and no other agent.
C26_HeartbeatRevives ==
    [][ (last'.op = "Heartbeat" /\ last'.name \in DOMAIN agents) =>
          LET n == last'.name
              a == agents[n]
              r == agents'[n]
          IN /\ last'.err = "ok"
             /\ DOMAIN agents' = DOMAIN agents
             /\ \A m \in DOMAIN agents \ {n} : agents'[m] = agents[m]
             /\ r.LastSeen = now
             /\ r.Status = "active"
             /\ r.ClaimedWork = a.ClaimedWork /\ r.NilClaims = a.NilClaims
             /\ r.FileHints = a.FileHints /\ r.NilHints = a.NilHints
             /\ r.Name = a.Name /\ r.Model = a.Model /\ r.Program = a.Program
             /\ r.StartedAt = a.StartedAt ]_vars

\* a Heartbeat revived an agent that was Gone, last seen earlier, holding a
\* claim and a hint, next to another agent
C26_Witness ==
    /\ last.op = "Heartbeat"
    /\ last.err = "ok"
    /\ last.arg = "gone"
    /\ agents[last.name].Status = "active"
    /\ agents[last.name].StartedAt < now
    /\ agents[last.name].ClaimedWork # <<>>
    /\ agents[last.name].FileHints # <<>>
    /\ DOMAIN agents # {last.name}

\* the callers inside the exclusive critical section
Inside == {p \in DOMAIN pc : pc[p].at \in {"body", "write", "unlock"}}

\* C27: the mutating operations are linearizable in the order in which they
\* took the exclusive lock: at most one call is inside its critical section
\* and no Save is reading then; the registry stays as the call found it when
\* it took the lock until the call writes; what the call returns and writes is
\* what the operation makes of that registry; and the registry changes only by
\* the write of the call holding the lock.
C27_Linearizable ==
    [][ /\ Cardinality(Inside) <= 1
        /\ \A p \in Inside :
              /\ mu = p
              /\ Readers = {}
              /\ pc[p].at \in {"body", "write"} => agents = pc[p].seen
              /\ pc[p].at = "write" => pc[p].out \in Effect(pc[p].call)
              /\ pc[p].at = "unlock" => agents = pc[p].out.agents
        /\ agents' # agents =>
              \E p \in Inside : /\ pc[p].at = "write"
                                /\ agents = pc[p].seen
                                /\ agents' = pc[p].out.agents ]_vars

\* both calls returned and a Save completed: the Unregister took the lock
\* first and the Register after it made a new record of a1
C27_Witness ==
    /\ \A p \in Procs : pc[p].at = "done" /\ pc[p].out.err = "ok"
    /\ pc["p1"].call.op = "Unregister"
    /\ pc["p2"].call.op = "Register"
    /\ "a1" \in DOMAIN agents
    /\ agents["a1"].ClaimedWork = <<>>
    /\ dir[CanonPath] # 0

\* C28: a call holds the store lock only between taking it and returning,
\* error returns included, and under a fair lock every call that asks for the
\* lock returns and every Save that holds it returns.
C28_CallsComplete ==
    /\ [](\A p \in Procs : pc[p].at \in {"idle", "lock", "done"} => mu # p)
    /\ \A p \in Procs : (pc[p].at = "lock") ~> (pc[p].at = "done")
    /\ \A s \in {"s1"} : (s \in Readers) ~> (savers[s].at = "done")

\* both callers returned, one of them with an error, after a Save that
\* failed, and the lock is free
C28_Witness ==
    /\ \A p \in Procs : pc[p].at = "done"
    /\ \E p \in Procs : pc[p].out.err = "conflict"
    /\ savers["s1"].at = "done"
    /\ savers["s1"].err \notin {"", "ok"}
    /\ mu = NoOne

\* what the read operations and the steps of Save leave in last.op
ReadOps == {"Get", "List", "ActiveAgents", "GetClaimHolder", "GetAllClaims",
            "GetFileConflicts", "Summary", "Saving", "Save"}

\* C29: Get, List, ActiveAgents, GetClaimHolder, GetAllClaims,
\* GetFileConflicts, Summary and every step of Save leave the registry as it
\* is, expired claims and hints included.
C29_ReadsLeaveRegistry ==
    [][ last'.op \in ReadOps => agents' = agents ]_vars

\* Summary counted no claim for an agent whose expired claim and expired hint
\* are still in the registry
C29_Witness ==
    /\ last.op = "Summary"
    /\ \E i \in DOMAIN last.arg :
          /\ last.arg[i].ClaimCount = 0
          /\ last.arg[i].Name \in DOMAIN agents
          /\ \E c \in Range(agents[last.arg[i].Name].ClaimedWork) : IsExpired(c, now)
          /\ \E h \in Range(agents[last.arg[i].Name].FileHints) : IsExpired(h, now)

\* C30: AddFileHint by a registered agent succeeds whatever hints that agent
\* or any other agent holds on the pattern; it appends the hint to the
\* caller's list, keeps the caller's claims and changes no other agent.
C30_HintsNeverExclusive ==
    [][ (last'.op = "AddFileHint" /\ last'.name \in DOMAIN agents) =>
          LET n == last'.name
          IN /\ last'.err = "ok"
             /\ DOMAIN agents' = DOMAIN agents
             /\ agents'[n].FileHints = Append(agents[n].FileHints, last'.arg)
             /\ agents'[n].ClaimedWork = agents[n].ClaimedWork
             /\ \A m \in DOMAIN agents \ {n} : agents'[m] = agents[m] ]_vars

\* an agent added a second hint on a pattern on which another agent holds an
\* unexpired hint, while an agent holds a claim
C30_Witness ==
    /\ last.op = "AddFileHint"
    /\ last.err = "ok"
    /\ Len(agents[last.name].FileHints) = 2
    /\ \A h \in Range(agents[last.name].FileHints) : h.Pattern = last.arg.Pattern
    /\ \E m \in DOMAIN agents \ {last.name} :
          /\ agents[m].ClaimedWork # <<>>
          /\ \E h \in Range(agents[m].FileHints) :
                h.Pattern = last.arg.Pattern /\ ~IsExpired(h, now)

\* C31: RemoveFileHint(A, pattern) for a registered agent A that holds no hint
\* on the pattern fails with a not-found error and leaves the registry, A's
\* last-seen included, as it was.
C31_RemoveAbsentHintFails ==
    [][ (/\ last'.op = "RemoveFileHint"
         /\ last'.name \in DOMAIN agents
         /\ \A h \in Range(agents[last'.name].FileHints) : h.Pattern # "main.go") =>
          /\ last'.err = "notfound"
          /\ agents' = agents ]_vars

\* the WorkClaim invariant
WorkClaimInvariant(c) ==
    /\ c.ClaimedAt <= c.ExpiresAt
    /\ c.BeadID # ""
    /\ c.Agent # ""
    /\ c.Reason \in {"implementing", "reviewing", "testing", "debugging", "planning"}

\* C32: every claim in the registry satisfies the WorkClaim invariant, and a
\* Claim whose claim breaks it fails with a validation error and leaves the
\* registry unchanged.
C32_AcceptedClaimsWellFormed ==
    [][ /\ \A n \in DOMAIN agents' :
              \A c \in Range(agents'[n].ClaimedWork) : WorkClaimInvariant(c)
        /\ (last'.op = "Claim" /\ ~WorkClaimInvariant(last'.arg)) =>
              (last'.err = "validation" /\ agents' = agents) ]_vars

\* C33: in every reachable state every record of the registry has a non-empty
\* name, a non-empty program and a valid status and is stored under its name.
C33_RecordsValid ==
    \A n \in DOMAIN agents :
        /\ agents[n].Name = n
        /\ agents[n].Name # ""
        /\ agents[n].Program # ""
        /\ agents[n].Status \in {"active", "idle", "inactive", "gone"}

\* C34: a well-formed Claim by an agent on an id it already has a claim on
\* succeeds when no other agent holds an unexpired claim on the id, and fails
\* with a conflict and changes nothing when one does; when it succeeds the
\* agent's list holds exactly one claim on the id, the new one, after its
\* claims on other ids, which are unchanged, and its last-seen is now;
\* repeating the same Claim leaves the list as it is.
C34_RenewalReplaces ==
    [][ (/\ last'.op = "Claim"
         /\ last'.name \in DOMAIN agents
         /\ ClaimValidate(last'.arg) = "ok"
         /\ \E c \in Range(agents[last'.name].ClaimedWork) : c.BeadID = last'.bead) =>
          LET A == last'.name
              id == last'.bead
              blocked == \E c \in ClaimsOfOthers(A, id) : now <= c.ExpiresAt
          IN /\ blocked => (last'.err = "conflict" /\ agents' = agents)
             /\ ~blocked =>
                   /\ last'.err = "ok"
                   /\ agents'[A].ClaimedWork = ClaimsNotOn(agents[A], id) \o <<last'.arg>>
                   /\ Cardinality({i \in DOMAIN agents'[A].ClaimedWork :
                                      agents'[A].ClaimedWork[i].BeadID = id}) = 1
                   /\ agents'[A].LastSeen = now
             /\ (/\ last.op = "Claim" /\ last.err = "ok"
                 /\ last.name = A /\ last.arg = last'.arg) =>
                   /\ last'.err = "ok"
                   /\ agents'[A].ClaimedWork = agents[A].ClaimedWork ]_vars

\* an agent whose list still holds its expired claim on a work item claimed
\* it again and was turned away, because another agent holds it now
C34_Witness ==
    /\ last.op = "Claim"
    /\ last.err = "conflict"
    /\ last.name \in DOMAIN agents
    /\ \E c \in Range(agents[last.name].ClaimedWork) :
          c.BeadID = last.bead /\ now > c.ExpiresAt
    /\ \E c \in Range(agents[last.name].ClaimedWork) : c.BeadID # last.bead

\* C34 as stated: a Claim by an agent on an id it already holds succeeds and
\* leaves exactly one claim on that id, the new one, in the agent's list.
C34_RenewalAlwaysSucceeds ==
    [][ (/\ last'.op = "Claim"
         /\ last'.name \in DOMAIN agents
         /\ ClaimValidate(last'.arg) = "ok"
         /\ \E c \in Range(agents[last'.name].ClaimedWork) : c.BeadID = last'.bead) =>
          /\ last'.err = "ok"
          /\ agents'[last'.name].ClaimedWork =
                ClaimsNotOn(agents[last'.name], last'.bead) \o <<last'.arg>>
          /\ agents'[last'.name].LastSeen = now ]_vars

\* C35: after Register(reg) has returned, a caller that assigns a field of
\* reg (its status, its last-seen, its claim list) leaves the registry as it
\* was.
C35_RegisterKeepsNoReference ==
    [][ (last.op = "Register" /\ last'.op = "CallerWrite" /\ last'.arg \in RegFields) =>
          agents' = agents ]_vars

\* C36: Claim, Release, Heartbeat, AddFileHint and RemoveFileHint called for
\* agent A, whether they succeed or fail, leave the record of every other
\* agent as it was.
C36_OthersUntouched ==
    [][ last'.op \in {"Claim", "Release", "Heartbeat", "AddFileHint", "RemoveFileHint"} =>
          \A m \in DOMAIN agents \ {last'.name} :
              m \in DOMAIN agents' /\ agents'[m] = agents[m] ]_vars

\* a Claim succeeded on a work item of which another agent still lists its
\* expired claim, next to a hint of that agent
C36_Witness ==
    /\ last.op = "Claim"
    /\ last.err = "ok"
    /\ \E m \in DOMAIN agents \ {last.name} :
          /\ \E c \in Range(agents[m].ClaimedWork) :
                c.BeadID = last.bead /\ now > c.ExpiresAt
          /\ agents[m].FileHints # <<>>

\* C37: every claim stored in the claim list of agent X names X as its
\* holder: a Claim whose claim names another agent is not stored under the
\* agent the call was made for.
C37_ClaimsNameTheirHolder ==
    \A n \in DOMAIN agents :
        \A c \in Range(agents[n].ClaimedWork) : c.Agent = agents[n].Name

\* C38: after a CleanupExpired sweep the status of an agent agrees with its
\* idle time: an agent seen within the inactivity threshold is neither
\* Inactive nor Gone, whichever operation refreshed its last-seen time.
C38_SweptStatusAgreesWithIdleTime ==
    [][ last'.op = "CleanupExpired" =>
          \A n \in DOMAIN agents' :
             IsActive(agents'[n], DefaultInactivityThreshold) =>
                agents'[n].Status \notin {AgentStatusInactive, AgentStatusGone} ]_vars

\* C39: the expiry time of a claim an agent holds on a work item changes only
\* by a successful Claim of that agent on that item, by a Register of that
\* agent, whose record's claim list replaces the stored one, or by a Load,
\* which replaces the registry; Heartbeat, Release of another item,
\* AddFileHint, RemoveFileHint and CleanupExpired never change it, and after
\* a Heartbeat another agent's Claim conflicts exactly when some other agent
\* held an unexpired claim on the item before the Heartbeat.
C39_ExpiryChangedOnlyByClaimRegisterLoad ==
    [][ /\ \A n \in DOMAIN agents \cap DOMAIN agents' :
              \A c \in Range(agents[n].ClaimedWork) :
                 \A d \in Range(agents'[n].ClaimedWork) :
                    (d.BeadID = c.BeadID /\ d.ExpiresAt # c.ExpiresAt) =>
                       \/ /\ last'.op = "Claim"
                          /\ last'.err = "ok"
                          /\ last'.name = n
                          /\ last'.bead = c.BeadID
                       \/ last'.op = "Register" /\ last'.err = "ok" /\ last'.name = n
                       \/ last'.op = "Load"
        /\ last'.op = "Heartbeat" =>
              \A m \in DOMAIN agents : \A b \in Beads :
                 "conflict" \in ClaimErrs(m, b)' <=>
                    \E h \in DOMAIN agents \ {m} :
                       \E c \in Range(agents[h].ClaimedWork) :
                          c.BeadID = b /\ now <= c.ExpiresAt ]_vars

\* a holder has just sent a heartbeat, its lease has run out, and another
\* agent's Claim on the item would succeed
C39_Witness ==
    /\ last.op = "Heartbeat"
    /\ last.err = "ok"
    /\ \E c \in Range(agents[last.name].ClaimedWork) :
          /\ now > c.ExpiresAt
          /\ \E m \in DOMAIN agents \ {last.name} : ClaimErrs(m, c.BeadID) = {"ok"}

\* C39 as stated: no operation other than a Claim by the holder on the same
\* item changes the expiry time of a claim.
C39_ExpiryChangedOnlyByClaim ==
    [][ \A n \in DOMAIN agents \cap DOMAIN agents' :
           \A c \in Range(agents[n].ClaimedWork) :
              \A d \in Range(agents'[n].ClaimedWork) :
                 (d.BeadID = c.BeadID /\ d.ExpiresAt # c.ExpiresAt) =>
                    /\ last'.op = "Claim"
                    /\ last'.err = "ok"
                    /\ last'.name = n
                    /\ last'.bead = c.BeadID ]_vars

\* C40: a Save that crashed after creating the temporary file leaves that
\* file behind and blocks no later Save: with no I/O error every Save of the
\* next process returns success, the canonical file then holds exactly one
\* complete record for each agent of the registry, nothing of the abandoned
\* file, and no temporary file is left.
C40_SaveAfterCrash ==
    [][ /\ last'.op = "Crash" =>
              \A s \in DOMAIN savers :
                 savers[s].at \in {"encode", "close", "rename"} =>
                    /\ dir'[TmpPath] # 0
                    /\ inodes'[dir'[TmpPath]] = inodes[dir[TmpPath]]
        /\ last'.op = "Save" =>
              /\ last'.err = "ok"
              /\ CanonFile'.exists
              /\ IsSnapshotOf(CanonFile'.lines, agents)
              /\ dir'[TmpPath] = 0 ]_vars

\* a Save has succeeded in a process started after a crash that left a
\* temporary file holding a record of an agent the registry no longer has
C40_Witness ==
    /\ last.op = "Save"
    /\ last.err = "ok"
    /\ "dead" \in DOMAIN pc
    /\ pc["dead"].left
    /\ \E i \in DOMAIN pc["dead"].lines :
          \A n \in DOMAIN agents : pc["dead"].lines[i] # EncodedLine(agents[n])
    /\ Len(pc["dead"].lines) > Cardinality(DOMAIN agents)

====
